---- MODULE Spec2Model ----
(***************************************************************************)
(* Model of the ShareSansar open-end mutual fund NAV extractor             *)
(* (scripts/main.py): the directory fetch, the per-fund announcement       *)
(* resolution, the image location and download, and the batch run main().  *)
(*                                                                         *)
(* Text that the code inspects (titles, image srcs, URLs, symbols) is a    *)
(* sequence of one-character strings; the empty string is << >>.           *)
(* Python's None is << >> and a present value x is << x >> wherever a      *)
(* value is optional (dict.get, soup.find, a function returning None).     *)
(***************************************************************************)
EXTENDS Integers, Sequences, FiniteSets, TLC

(***************************************************************************)
(* Bounds of the model.                                                    *)
(***************************************************************************)
MaxFunds == 3
MaxAnn == 3
MaxImgs == 3
MaxCalls == 3
MaxPieces == 4
MaxItems == 2

None == << >>
Some(x) == << x >>
IsSome(o) == o # << >>
Val(o) == o[1]

(***************************************************************************)
(* Text helpers: str.lower, the `in` operator, str.endswith, str.rfind.    *)
(***************************************************************************)
UpperToLower ==
    [c \in {"A", "E", "N", "S", "T", "V", "G", "M"} |->
        CASE c = "A" -> "a" [] c = "E" -> "e" [] c = "N" -> "n"
          [] c = "S" -> "s" [] c = "T" -> "t" [] c = "V" -> "v"
          [] c = "G" -> "g" [] c = "M" -> "m"]

LowerChar(c) == IF c \in DOMAIN UpperToLower THEN UpperToLower[c] ELSE c

Lower(s) == [k \in 1..Len(s) |-> LowerChar(s[k])]

Contains(s, sub) ==
    \E k \in 0..(Len(s) - Len(sub)) : SubSeq(s, k + 1, k + Len(sub)) = sub

EndsWith(s, suf) ==
    /\ Len(suf) <= Len(s)
    /\ SubSeq(s, Len(s) - Len(suf) + 1, Len(s)) = suf

EndsWithAny(s, sufs) == \E suf \in sufs : EndsWith(s, suf)

\* str.rfind(c): the greatest position holding c, 0 when there is none
\* (positions count from 1 here, from 0 in Python).
RFind(s, c) ==
    LET hits == {k \in 1..Len(s) : s[k] = c}
    IN  IF hits = {} THEN 0 ELSE CHOOSE k \in hits : \A m \in hits : m <= k

(***************************************************************************)
(* Literals of the code.                                                   *)
(***************************************************************************)
KwNav == <<"n", "a", "v">>
KwNetAssetsValue ==
    <<"n", "e", "t", " ", "a", "s", "s", "e", "t", "s", " ", "v", "a", "l", "u", "e">>
Marker == <<"a", "n", "n", "o", "u", "n", "c", "e", "m", "e", "n", "t">>
ExtJpg == <<".", "j", "p", "g">>
ExtJpeg == <<".", "j", "p", "e", "g">>
ExtPng == <<".", "p", "n", "g">>
AcceptedExtensions == {ExtJpg, ExtJpeg, ExtPng}
DefaultExtension == ExtJpg
AnchorClose == <<"<", "/", "a", ">">>
UpperAlnum ==
    {"A", "B", "C", "D", "E", "F", "G", "H", "I", "J", "K", "L", "M", "N", "O",
     "P", "Q", "R", "S", "T", "U", "V", "W", "X", "Y", "Z",
     "0", "1", "2", "3", "4", "5", "6", "7", "8", "9"}

(***************************************************************************)
(* fetch_open_end_funds: the symbol of a row.                              *)
(* re.search(r'>([A-Z0-9]+)</a>', field): the leftmost ">" followed by a   *)
(* non-empty run of upper-case alphanumerics and then "</a>".  The run is  *)
(* greedy; as "<" is not in the class no shorter run can match.            *)
(***************************************************************************)
RunEnd(s, p) ==
    LET ends == {q \in (p - 1)..Len(s) : \A k \in p..q : s[k] \in UpperAlnum}
    IN  CHOOSE q \in ends : \A r \in ends : r <= q

MatchesAt(s, p) ==
    /\ s[p] = ">"
    /\ RunEnd(s, p + 1) >= p + 1
    /\ SubSeq(s, RunEnd(s, p + 1) + 1, RunEnd(s, p + 1) + 4) = AnchorClose

SymbolMatch(field) ==
    LET starts == {p \in 1..Len(field) : MatchesAt(field, p)}
    IN  IF starts = {} THEN None
        ELSE LET p == CHOOSE x \in starts : \A y \in starts : x <= y
             IN  Some(SubSeq(field, p + 1, RunEnd(field, p + 1)))

\* item.get("symbol", ""): a row is a record whose symbol field is optional.
RowSymbolField(item) == IF IsSome(item.symbol) THEN Val(item.symbol) ELSE << >>

RowSymbol(item) ==
    IF IsSome(SymbolMatch(RowSymbolField(item)))
    THEN Val(SymbolMatch(RowSymbolField(item)))
    ELSE RowSymbolField(item)

\* data.get("data", []): the rows of the response, none when the field is
\* missing.
DataRows(json) == IF IsSome(json.data) THEN Val(json.data) ELSE << >>

\* The other fields of a fund (name, size, NAV snapshot) are copied from the
\* row as they are and decide nothing; a fund is held as its symbol.
fetch_open_end_funds(json) ==
    [k \in 1..Len(DataRows(json)) |->
        [symbol |-> RowSymbol(DataRows(json)[k])]]

(***************************************************************************)
(* find_latest_nav_announcement                                            *)
(***************************************************************************)
TitleGet(ann) == IF IsSome(ann.title) THEN Val(ann.title) ELSE << >>

\* The title as it is, not lowered: what a case-sensitive comparison sees.
TitleRaw(ann) == TitleGet(ann)

TitleLowered(ann) == Lower(TitleGet(ann))

IsNavTitle(title) == Contains(title, KwNav) \/ Contains(title, KwNetAssetsValue)

RECURSIVE FindFrom(_, _)
FindFrom(announcements, k) ==
    IF k > Len(announcements) THEN None
    ELSE IF IsNavTitle(TitleLowered(announcements[k])) THEN Some(announcements[k])
    ELSE FindFrom(announcements, k + 1)

\* A variant that falls back on the first announcement when none matches.
FirstOrNone(announcements) ==
    IF IsSome(FindFrom(announcements, 1)) THEN FindFrom(announcements, 1)
    ELSE IF Len(announcements) > 0 THEN Some(announcements[1])
    ELSE None

find_latest_nav_announcement(announcements) == FindFrom(announcements, 1)

(***************************************************************************)
(* extract_image_url, after the page was fetched: imgs are the src         *)
(* attributes of the page's img elements in document order, each optional. *)
(***************************************************************************)
SrcGet(img) == IF IsSome(img) THEN Val(img) ELSE << >>

\* A variant that looks at the extension only.
AnyExtension(src) == EndsWithAny(src, AcceptedExtensions)

IsAnnouncementImage(src) == Contains(src, Marker) /\ EndsWithAny(src, AcceptedExtensions)

RECURSIVE ScanImgs(_, _)
ScanImgs(imgs, k) ==
    IF k > Len(imgs) THEN None
    ELSE IF IsAnnouncementImage(SrcGet(imgs[k])) THEN Some(SrcGet(imgs[k]))
    ELSE ScanImgs(imgs, k + 1)

extract_image_url(imgs) == ScanImgs(imgs, 1)

(***************************************************************************)
(* download_image: Path(url).suffix and the artifact's file name.          *)
(* Path drops trailing slashes; name is what follows the last slash;       *)
(* suffix is name[i:] for i = name.rfind('.') when 0 < i < len(name) - 1.  *)
(***************************************************************************)
RECURSIVE StripSlashes(_)
StripSlashes(s) ==
    IF Len(s) > 0 /\ s[Len(s)] = "/" THEN StripSlashes(SubSeq(s, 1, Len(s) - 1))
    ELSE s

PathName(url) ==
    LET p == StripSlashes(url)
    IN  SubSeq(p, RFind(p, "/") + 1, Len(p))

PathSuffix(url) ==
    LET name == PathName(url)
        i == RFind(name, ".")
    IN  IF 1 < i /\ i < Len(name) THEN SubSeq(name, i, Len(name)) ELSE << >>

ExtOf(url) == IF PathSuffix(url) # << >> THEN PathSuffix(url) ELSE DefaultExtension

\* A variant that keeps the name of the source file in the artifact's name.
FileNameWithStem(url, symbol) == symbol \o <<"_">> \o PathName(url)

FileName(url, symbol) == symbol \o ExtOf(url)

\* A variant that appends to a file that exists.
AppendBytes(store, path, content) ==
    [p \in DOMAIN store \cup {path} |->
        IF p = path
        THEN (IF path \in DOMAIN store THEN store[path] \o content ELSE content)
        ELSE store[p]]

WriteBytes(store, path, content) ==
    [p \in DOMAIN store \cup {path} |-> IF p = path THEN content ELSE store[p]]

\* json.dump into open(DATA_DIR / f"{symbol}_ocr.json", "w").
WriteJson(files, symbol, document) ==
    [f \in DOMAIN files \cup {symbol} |-> IF f = symbol THEN document ELSE files[f]]

\* The reply to the image request: no response at all (the request raised),
\* or a response with a status and a body.
\* Without raise_for_status only a transport error raises.
RaisedOnTransportOnly(reply) == reply.kind = "transport_error"

Raised(reply) == reply.kind = "transport_error" \/ ~reply.ok

\* A variant that writes the body before looking at the status.
WriteThenCheck(store, url, symbol, reply) ==
    IF reply.kind = "transport_error" THEN [raised |-> TRUE, store |-> store]
    ELSE [raised |-> ~reply.ok,
          store |-> WriteBytes(store, FileName(url, symbol), reply.content)]

download_image(store, url, symbol, reply) ==
    IF Raised(reply) THEN [raised |-> TRUE, store |-> store]
    ELSE [raised |-> FALSE,
          store |-> WriteBytes(store, FileName(url, symbol), reply.content)]

(***************************************************************************)
(* extract_nav_data: line_count counts every OCR result, ocr_results keeps *)
(* the first OcrKeep of them with the confidence rounded to two decimals.  *)
(* A confidence is held in thousandths; the replies below use no ties.     *)
(***************************************************************************)
OcrKeep == 20

Round2(conf) == (conf + 5) \div 10

\* "\n".join(text_lines)
RECURSIVE JoinLines(_)
JoinLines(text_lines) ==
    IF text_lines = << >> THEN << >>
    ELSE IF Len(text_lines) = 1 THEN text_lines[1]
    ELSE text_lines[1] \o <<"\n">> \o JoinLines(Tail(text_lines))

extract_nav_data(ocr_results) ==
    [raw_text |-> JoinLines([k \in 1..Len(ocr_results) |-> ocr_results[k].text]),
     line_count |-> Len(ocr_results),
     ocr_results |->
        [k \in 1..(IF Len(ocr_results) < OcrKeep THEN Len(ocr_results) ELSE OcrKeep) |->
            [text |-> ocr_results[k].text, confidence |-> Round2(ocr_results[k].conf)]]]

(***************************************************************************)
(* extract_nav.py, parse_data: the fixed keyword list, in list order.  A   *)
(* Devanagari code point is written as one character named by its number.  *)
(***************************************************************************)
KwNibl == <<"U090F", "U0928", "U0906", "U0907", "U092C", "U093F", "U090F", "U0932">>
KwSahabhagita == <<"U0938", "U0939", "U092D", "U093E", "U0917", "U093F", "U0924", "U093E">>
KwMulya == <<"U092E", "U0942", "U0932", "U094D", "U092F">>
KwMangsir == <<"U092E", "U0902", "U0938", "U093F", "U0930">>
Kw2082 == <<"U0968", "U0966", "U096E", "U0968">>
KwNAV == <<"N", "A", "V">>

keywords == <<KwNibl, KwSahabhagita, KwMulya, KwMangsir, Kw2082, KwNAV>>

\* The characters str.strip removes that the texts of this model use.
Whitespace == {" ", "\t", "\n", "\r", "\f"}

\* text.split('\n'): the pieces between the line feeds, empty ones included.
RECURSIVE Split(_)
Split(text) ==
    IF \A n \in 1..Len(text) : text[n] # "\n" THEN <<text>>
    ELSE LET n == CHOOSE p \in 1..Len(text) :
                      text[p] = "\n" /\ \A q \in 1..(p - 1) : text[q] # "\n"
         IN  <<SubSeq(text, 1, n - 1)>> \o Split(SubSeq(text, n + 1, Len(text)))

RECURSIVE LStrip(_)
LStrip(line) ==
    IF line # << >> /\ Head(line) \in Whitespace THEN LStrip(Tail(line)) ELSE line

RECURSIVE RStrip(_)
RStrip(line) ==
    IF line # << >> /\ line[Len(line)] \in Whitespace
    THEN RStrip(SubSeq(line, 1, Len(line) - 1))
    ELSE line

Strip(line) == RStrip(LStrip(line))

StripEach(ls) == [n \in 1..Len(ls) |-> Strip(ls[n])]

\* [line.strip() for line in text.split('\n') if line]
NonEmptyLines(text) == StripEach(SelectSeq(Split(text), LAMBDA line : line # << >>))

\* lines = [line.strip() for line in text.split('\n') if line.strip()]
raw_lines(text) == StripEach(SelectSeq(Split(text), LAMBDA line : Strip(line) # << >>))

\* [kw for kw in keywords if kw in lines]
KeywordsEqualToALine(text) ==
    SelectSeq(keywords, LAMBDA kw : \E n \in 1..Len(raw_lines(text)) : raw_lines(text)[n] = kw)

\* found_keywords = [kw for kw in keywords if kw in text]
found_keywords(text) == SelectSeq(keywords, LAMBDA kw : Contains(text, kw))

parse_data(text) ==
    [found_keywords |-> found_keywords(text), raw_lines |-> raw_lines(text)]

(***************************************************************************)
(* What the external host may answer.                                      *)
(***************************************************************************)
SymA1 == <<"A", "1">>
SymB == <<"B">>
SymC == <<"C">>
Anchor(sym) == <<"<", "a", ">">> \o sym \o AnchorClose

RowA1 == [symbol |-> Some(Anchor(SymA1))]
RowB == [symbol |-> Some(Anchor(SymB))]
RowC == [symbol |-> Some(SymC)]

\* Two orders of rows, the second with a repeated symbol at the front.
Listing1(n) == [k \in 1..n |-> CASE k % 3 = 1 -> RowA1 [] k % 3 = 2 -> RowB [] OTHER -> RowC]
Listing2(n) == [k \in 1..n |-> IF k <= 2 THEN RowA1 ELSE Listing1(n)[k - 1]]

NoResponse == [kind |-> "transport_error", ok |-> FALSE]

DirectoryReplies ==
    {[kind |-> "transport_error", ok |-> FALSE, json |-> [data |-> None]],
     [kind |-> "response", ok |-> FALSE, json |-> [data |-> None]],
     [kind |-> "response", ok |-> TRUE, json |-> [data |-> None]]}
    \cup {[kind |-> "response", ok |-> TRUE, json |-> [data |-> Some(rows)]] :
            rows \in {Listing1(n) : n \in 0..MaxFunds} \cup {Listing2(n) : n \in 2..MaxFunds}}

\* The profile page of fund k: the server binds token and company id to the
\* session; a page may lack any of the elements the code looks for.
FullPage(k) ==
    [token |-> Some(<<"tok", k>>), companyid |-> Some(<<"cid", k>>),
     symbol |-> Some(<<"sym", k>>), sector |-> Some(<<"sector">>)]

ProfilePages(k) ==
    {FullPage(k),
     [FullPage(k) EXCEPT !.token = None],
     [FullPage(k) EXCEPT !.companyid = None],
     [FullPage(k) EXCEPT !.sector = None],
     [FullPage(k) EXCEPT !.symbol = None]}

ProfileReplies(k) ==
    {[kind |-> "transport_error", page |-> FullPage(k)]}
    \cup {[kind |-> "response", page |-> pg] : pg \in ProfilePages(k)}

TitleNAV == <<"N", "A", "V">>
TitleAGM == <<"A", "G", "M">>
ItemNav == [published_date |-> "d1", href |-> Some("u1"), text |-> Some(TitleNAV)]
ItemAgm == [published_date |-> "d2", href |-> Some("u2"), text |-> Some(TitleAGM)]
ItemNoHref == [published_date |-> "d3", href |-> None, text |-> Some(TitleNAV)]

QueryReplies ==
    {[kind |-> "transport_error", ok |-> FALSE, json |-> [data |-> None]],
     [kind |-> "response", ok |-> FALSE, json |-> [data |-> None]],
     [kind |-> "response", ok |-> TRUE, json |-> [data |-> None]],
     [kind |-> "response", ok |-> TRUE, json |-> [data |-> Some(<<ItemNoHref, ItemAgm>>)]],
     [kind |-> "response", ok |-> TRUE, json |-> [data |-> Some(<<ItemAgm, ItemNav>>)]]}

SrcLogo == <<"/", "l", "o", "g", "o">> \o ExtPng
SrcA == <<"/">> \o Marker \o <<"/", "a">> \o ExtJpg
SrcB == <<"/">> \o Marker \o <<"/", "b">> \o ExtPng
\* A file whose name is nothing but the extension.
SrcDot == <<"/">> \o Marker \o <<"/">> \o ExtPng

DetailReplies ==
    {[kind |-> "transport_error", ok |-> FALSE, imgs |-> << >>],
     [kind |-> "response", ok |-> FALSE, imgs |-> << >>],
     [kind |-> "response", ok |-> TRUE, imgs |-> <<None, Some(SrcLogo)>>],
     [kind |-> "response", ok |-> TRUE, imgs |-> <<Some(SrcLogo), Some(SrcA)>>],
     [kind |-> "response", ok |-> TRUE, imgs |-> <<Some(SrcB)>>],
     [kind |-> "response", ok |-> TRUE, imgs |-> <<Some(SrcDot)>>]}

ImageReplies ==
    {[kind |-> "transport_error", ok |-> FALSE, content |-> << >>],
     [kind |-> "response", ok |-> FALSE, content |-> <<4, 0, 4>>],
     [kind |-> "response", ok |-> TRUE, content |-> <<7, 7>>]}

OcrReplies ==
    {[kind |-> "engine_missing", results |-> << >>],
     [kind |-> "failure", results |-> << >>],
     [kind |-> "results", results |-> << >>],
     [kind |-> "results",
      results |-> <<[text |-> <<"N", "A", "V", " ", "1", "0", ".", "5">>, conf |-> 913],
                    [text |-> <<"x">>, conf |-> 402]>>],
     [kind |-> "results",
      results |-> <<[text |-> <<"F", "u", "n", "d">>, conf |-> 871],
                    [text |-> <<"N", "A", "V">>, conf |-> 996],
                    [text |-> <<"1", "0", ".", "5">>, conf |-> 644]>>],
     [kind |-> "results",
      results |-> [k \in 1..(OcrKeep + 1) |->
                      [text |-> IF k = OcrKeep + 1 THEN KwNAV ELSE <<"x">>,
                       conf |-> 500 + k]]]}

(***************************************************************************)
(* fetch_fund_announcements: what is scraped from the profile page and     *)
(* sent in the announcement query, and the parse of the query's answer.    *)
(***************************************************************************)
\* The sessions that exist: those created by the calls made so far.
SessionsOf(created) == {created[k] : k \in DOMAIN created} \ {0}

\* One session object that every call uses.
SharedSession(existing) == 1

\* session = requests.Session(): an object none of the earlier calls has.
Session(existing) ==
    IF existing = {} THEN 1
    ELSE 1 + (CHOOSE x \in existing : \A y \in existing : y <= x)

Scrape(page, symbol) ==
    [csrf_token |-> IF IsSome(page.token) THEN Val(page.token) ELSE << >>,
     company |-> IF IsSome(page.companyid) THEN Val(page.companyid) ELSE << >>,
     symbol |-> IF IsSome(page.symbol) THEN Val(page.symbol) ELSE symbol,
     sector |-> IF IsSome(page.sector) THEN Val(page.sector) ELSE << >>]

\* An item's title is an anchor: href is re.search(r'href="([^"]+)"') and
\* text is re.search(r'>([^<]+)</a>') on it, each absent when there is no
\* match.  Items without href are skipped.
ParseAnnouncements(json) ==
    LET items == SelectSeq(DataRows(json), LAMBDA it : IsSome(it.href))
    IN  [k \in 1..Len(items) |->
            [date |-> items[k].published_date,
             title |-> Some(IF IsSome(items[k].text) THEN Val(items[k].text) ELSE << >>),
             url |-> Val(items[k].href)]]

(***************************************************************************)
(* State of the batch run, main().                                         *)
(***************************************************************************)
VARIABLES
    pc,             \* position in main
    directory,      \* the answer the directory request got, none before it
    funds,          \* funds
    funds_json,     \* data/funds.json, none while not written
    i,              \* index of the fund of the step 2 loop
    directory_requests, \* how many times the directory was requested
    session,        \* locals of fetch_fund_announcements after the scrape
    session_of,     \* per fund, the session its call created, 0 before the call
    query_sent,     \* what the announcement query of this iteration sent
    announcements,  \* per fund, the list fetch_fund_announcements returned
    status2,        \* per fund, the line step 2 printed
    nav_images,     \* nav_images
    j,              \* index into nav_images of the step 3 loop
    img_url,        \* img_url of the current step 3 iteration
    status3,        \* per fund, the line step 3 printed
    downloaded,     \* downloaded
    images,         \* the files of IMAGES_DIR: path -> bytes
    images_dir,     \* whether IMAGES_DIR exists
    images_before,  \* the files of IMAGES_DIR when download_image was entered
    images_json,    \* data/images.json, none while not written
    ocr_json,       \* the <symbol>_ocr.json files: symbol -> document
    status4,        \* what step 4 printed
    ocr_printed,    \* the lines the except clause of step 4 printed, if any
    sent,           \* per fund, how many requests of each kind were issued
    since_sleep,    \* per-fund requests issued since the last time.sleep
    reported        \* per fund, how many final outcomes were printed for it

mainVars ==
    <<pc, directory, directory_requests, ocr_printed, funds, funds_json, i, session, session_of, query_sent,
      announcements, status2, nav_images, j, img_url, status3, downloaded, images, images_dir,
      images_before, images_json, ocr_json, status4, sent, since_sleep, reported>>

\* State of find_latest_nav_announcement applied on its own.
VARIABLES
    sel_in,         \* the announcements passed
    sel_out         \* none before the call, then the value returned

selVars == <<sel_in, sel_out>>

\* State of extract_image_url applied on its own.
VARIABLES
    loc_in,         \* the src attributes of the page's img elements
    loc_out         \* none before the call, then the value returned

locVars == <<loc_in, loc_out>>

\* State of download_image called on its own.
VARIABLES
    dl_calls,       \* the calls made so far
    dl_last,        \* the last call: url, symbol, what the host answered
    dl_repeat,      \* the last call repeated the one before it, both served
                    \* the same bytes
    dl_written,     \* the downloads that succeeded: symbol, url, path
    dl_latest       \* per symbol and suffix, the bytes of the latest of them

dlVars == <<dl_calls, dl_last, dl_repeat, dl_written, dl_latest>>

\* What the batch run never touches.
VARIABLES
    parse_in,       \* the recognized text passed to parse_data
    parse_out       \* none before the call, then the value returned

parseVars == <<parse_in, parse_out>>

VARIABLES
    cli_pc,         \* where main of extract_nav.py is
    cli_args,       \* none before parse_args, then --image and --debug
    cli_reply,      \* what requests.get met, none when it was not called
    cli_img,        \* none before get_image returned, then what it returned
    cli_processed,  \* none before preprocess_image returned, then its result
    cli_debug_file, \* whether debug_processed.png was written
    cli_engine,     \* what the OCR engine did, none when it was not run
    cli_text,       \* none before extract_text returned, then the text
    cli_exc,        \* the exception on its way to the handlers, or none
    cli_stdout,     \* the documents printed on standard output
    cli_stderr,     \* the lines printed on standard error
    cli_exit        \* none while running, then the exit status

cliVars ==
    <<cli_pc, cli_args, cli_reply, cli_img, cli_processed, cli_debug_file,
      cli_engine, cli_text, cli_exc, cli_stdout, cli_stderr, cli_exit>>

extractNavVars == <<parseVars, cliVars>>

VARIABLES
    sc_holdings,    \* the holdings dict passed to scale_holdings, as it is now
    sc_before,      \* the same dict as it was when the call was made
    sc_multipliers, \* the multipliers dict passed
    sc_out          \* none before the call, then the dict returned

scaleVars == <<sc_holdings, sc_before, sc_multipliers, sc_out>>

VARIABLES
    fx_pc,          \* where main of fix_poush_nav.py is
    fx_data,        \* data: per symbol of the loaded JSON, the fund's holdings
    fx_k,           \* the entry of fixes the first loop is at
    fx_n,           \* the fund of data the second loop is at
    fx_fixed,       \* the symbols a fix function was called for
    fx_saved        \* none before save_nav, then what it wrote

fixVars == <<fx_pc, fx_data, fx_k, fx_n, fx_fixed, fx_saved>>

poushVars == <<scaleVars, fixVars>>

harnessVars == <<selVars, locVars, dlVars, extractNavVars, poushVars>>

NoRequests == [profile |-> 0, query |-> 0, detail |-> 0, image |-> 0]

MainInit ==
    /\ pc = "start"
    /\ directory = None
    /\ funds = << >>
    /\ funds_json = None
    /\ i = 0
    /\ directory_requests = 0
    /\ session = None
    /\ session_of = << >>
    /\ query_sent = None
    /\ announcements = << >>
    /\ status2 = << >>
    /\ nav_images = << >>
    /\ j = 0
    /\ img_url = None
    /\ status3 = << >>
    /\ downloaded = << >>
    /\ images = << >>
    /\ images_dir = FALSE
    /\ images_before = << >>
    /\ images_json = None
    /\ ocr_json = << >>
    /\ status4 = "pending"
    /\ ocr_printed = None
    /\ sent = << >>
    /\ since_sleep = 0
    /\ reported = << >>

\* Where main goes when a loop index moves on.
\* A run that ends at once when step 2 found nothing.
DoneWhenNothingFound(nav) == IF Len(nav) >= 1 THEN "locate" ELSE "done"

AfterStep2(nav) == IF Len(nav) >= 1 THEN "locate" ELSE "save"
Step2At(k, nav) == IF k <= Len(funds) THEN "profile" ELSE AfterStep2(nav)
\* A variant of the step 3 loop that ends one item early.
Step3AtSkipLast(k) == IF k < Len(nav_images) THEN "locate" ELSE "save"

Step3At(k) == IF k <= Len(nav_images) THEN "locate" ELSE "save"

\* except Exception of the step 2 and step 3 loops: print the error and go
\* on to the sleep that ends the iteration.
\* Propagated is where an exception that nothing catches leaves main.
Propagated == "aborted"
\* A handler that sends the iteration back to its first request.
RetryIteration == "profile"
Caught2 == "sleep2"
Caught3 == "sleep3"

(***************************************************************************)
(* main, step 1: the directory request, the listing and data/funds.json.   *)
(* An exception here is caught nowhere and ends the run.                   *)
(***************************************************************************)
FetchOpenEndFunds ==
    /\ UNCHANGED harnessVars
    /\ pc = "start"
    /\ directory_requests' = directory_requests + 1
    /\ \E reply \in DirectoryReplies :
        /\ directory' = Some(reply)
        /\ IF Raised(reply)
           THEN /\ pc' = "aborted"
                /\ UNCHANGED <<funds, funds_json, i, announcements, status2, status3, sent,
                               reported, session_of>>
           ELSE LET fs == fetch_open_end_funds(reply.json)
                IN  /\ funds' = fs
                    /\ funds_json' = Some(fs)
                    /\ i' = 1
                    /\ announcements' = [k \in 1..Len(fs) |-> None]
                    /\ status2' = [k \in 1..Len(fs) |-> "pending"]
                    /\ status3' = [k \in 1..Len(fs) |-> "pending"]
                    /\ sent' = [k \in 1..Len(fs) |-> NoRequests]
                    /\ reported' = [k \in 1..Len(fs) |-> 0]
                    /\ session_of' = [k \in 1..Len(fs) |-> 0]
                    /\ pc' = IF Len(fs) >= 1 THEN "profile" ELSE "save"
    /\ UNCHANGED <<ocr_printed, session, query_sent, nav_images, j, img_url, downloaded, images,
                   images_dir, images_before, images_json, ocr_json, status4,
                   since_sleep>>

(***************************************************************************)
(* main, step 2, fund i: fetch_fund_announcements up to the scrape of the  *)
(* profile page.  session.get is not followed by raise_for_status.         *)
(***************************************************************************)
ProfileFetch ==
    /\ UNCHANGED harnessVars
    /\ pc = "profile"
    /\ \E reply \in ProfileReplies(i) :
        IF reply.kind = "transport_error"
        THEN /\ status2' = [status2 EXCEPT ![i] = "error"]
             /\ reported' = [reported EXCEPT ![i] = @ + 1]
             /\ pc' = Caught2
             /\ session' = None
        ELSE /\ session' = Some([sid |-> Session(SessionsOf(session_of)),
                                 page |-> reply.page,
                                 data |-> Scrape(reply.page, funds[i].symbol)])
             /\ pc' = "query"
             /\ UNCHANGED <<status2, reported>>
    /\ session_of' = [session_of EXCEPT ![i] = Session(SessionsOf(session_of))]
    /\ sent' = [sent EXCEPT ![i].profile = @ + 1]
    /\ since_sleep' = since_sleep + 1
    /\ UNCHANGED <<query_sent, directory, directory_requests, ocr_printed, funds, funds_json, i, announcements, nav_images, j,
                   img_url, status3, downloaded, images, images_dir, images_before,
                   images_json, ocr_json, status4>>

(***************************************************************************)
(* main, step 2, fund i: the announcement query, the parse of its answer,  *)
(* find_latest_nav_announcement and the append to nav_images.              *)
(***************************************************************************)
AnnouncementQuery ==
    /\ UNCHANGED harnessVars
    /\ pc = "query"
    /\ \E reply \in QueryReplies :
        IF Raised(reply)
        THEN /\ status2' = [status2 EXCEPT ![i] = "error"]
             /\ reported' = [reported EXCEPT ![i] = @ + 1]
             /\ pc' = Caught2
             /\ UNCHANGED <<announcements, nav_images>>
        ELSE LET anns == ParseAnnouncements(reply.json)
                 nav_ann == find_latest_nav_announcement(anns)
             IN  /\ announcements' = [announcements EXCEPT ![i] = Some(anns)]
                 /\ IF IsSome(nav_ann)
                    THEN /\ status2' = [status2 EXCEPT ![i] = "found"]
                         /\ nav_images' = Append(nav_images,
                                [idx |-> i, symbol |-> funds[i].symbol,
                                 announcement |-> Val(nav_ann)])
                         /\ UNCHANGED reported
                    ELSE /\ status2' = [status2 EXCEPT ![i] = "no NAV announcement found"]
                         /\ reported' = [reported EXCEPT ![i] = @ + 1]
                         /\ UNCHANGED nav_images
                 /\ pc' = "sleep2"
    /\ query_sent' = Some([sid |-> Val(session).sid,
                            X_CSRF_Token |-> Val(session).data.csrf_token,
                            company |-> Val(session).data.company,
                            symbol |-> Val(session).data.symbol,
                            sector |-> Val(session).data.sector])
    /\ sent' = [sent EXCEPT ![i].query = @ + 1]
    /\ since_sleep' = since_sleep + 1
    /\ UNCHANGED <<session_of, directory, directory_requests, ocr_printed, funds, funds_json, i, session, j, img_url, status3,
                   downloaded, images, images_dir, images_before, images_json,
                   ocr_json, status4>>

\* time.sleep(0.5) at the end of a step 2 iteration; the locals of the
\* iteration are gone.
Sleep2 ==
    /\ UNCHANGED harnessVars
    /\ pc = "sleep2"
    /\ since_sleep' = 0
    /\ session' = None
    /\ query_sent' = None
    /\ i' = i + 1
    /\ pc' = Step2At(i + 1, nav_images)
    /\ j' = IF Step2At(i + 1, nav_images) = "locate" THEN 1 ELSE j
    /\ UNCHANGED <<session_of, directory, directory_requests, ocr_printed, funds, funds_json, announcements, status2, nav_images,
                   img_url, status3, downloaded, images, images_dir, images_before,
                   images_json, ocr_json, status4, sent, reported>>

(***************************************************************************)
(* main, step 3, item j of nav_images: extract_image_url.                  *)
(***************************************************************************)
LocateImage ==
    /\ UNCHANGED harnessVars
    /\ pc = "locate"
    /\ LET k == nav_images[j].idx
       IN  /\ \E reply \in DetailReplies :
                IF Raised(reply)
                THEN /\ status3' = [status3 EXCEPT ![k] = "error"]
                     /\ reported' = [reported EXCEPT ![k] = @ + 1]
                     /\ pc' = Caught3
                     /\ img_url' = None
                ELSE LET found == extract_image_url(reply.imgs)
                     IN  IF IsSome(found) /\ Val(found) # << >>
                         THEN /\ img_url' = found
                              /\ pc' = "download"
                              /\ UNCHANGED <<status3, reported>>
                         ELSE /\ status3' = [status3 EXCEPT ![k] = "no image found"]
                              /\ reported' = [reported EXCEPT ![k] = @ + 1]
                              /\ pc' = "sleep3"
                              /\ img_url' = None
           /\ sent' = [sent EXCEPT ![k].detail = @ + 1]
    /\ since_sleep' = since_sleep + 1
    /\ UNCHANGED <<session_of, query_sent, directory, directory_requests, ocr_printed, funds, funds_json, i, session,
                   announcements, status2,
                   nav_images, j, downloaded, images, images_dir, images_before,
                   images_json, ocr_json, status4>>

(***************************************************************************)
(* main, step 3, item j of nav_images: download_image and the append to    *)
(* downloaded.                                                             *)
(***************************************************************************)
DownloadImage ==
    /\ UNCHANGED harnessVars
    /\ pc = "download"
    /\ LET k == nav_images[j].idx
           symbol == nav_images[j].symbol
       IN  /\ \E reply \in ImageReplies :
                LET r == download_image(images, Val(img_url), symbol, reply)
                IN  /\ images' = r.store
                    /\ reported' = [reported EXCEPT ![k] = @ + 1]
                    /\ IF r.raised
                       THEN /\ status3' = [status3 EXCEPT ![k] = "error"]
                            /\ pc' = Caught3
                            /\ UNCHANGED downloaded
                       ELSE /\ status3' = [status3 EXCEPT ![k] = "saved"]
                            /\ downloaded' = Append(downloaded,
                                   [idx |-> k, symbol |-> symbol,
                                    image_path |-> FileName(Val(img_url), symbol),
                                    image_url |-> Val(img_url),
                                    announcement_url |-> nav_images[j].announcement.url])
                            /\ pc' = "sleep3"
           /\ sent' = [sent EXCEPT ![k].image = @ + 1]
    /\ images_dir' = TRUE
    /\ images_before' = images
    /\ since_sleep' = since_sleep + 1
    /\ UNCHANGED <<session_of, query_sent, directory, directory_requests, ocr_printed, funds, funds_json, i, session,
                   announcements, status2,
                   nav_images, j, img_url, images_json, ocr_json, status4>>

\* time.sleep(0.5) at the end of a step 3 iteration.
Sleep3 ==
    /\ UNCHANGED harnessVars
    /\ pc = "sleep3"
    /\ since_sleep' = 0
    /\ img_url' = None
    /\ j' = j + 1
    /\ pc' = Step3At(j + 1)
    /\ UNCHANGED <<session_of, query_sent, directory, directory_requests, ocr_printed, funds, funds_json, i, session,
                   announcements, status2,
                   nav_images, status3, downloaded, images, images_dir, images_before,
                   images_json, ocr_json, status4, sent, reported>>

\* data/images.json is written after the step 3 loop.
SaveImagesJson ==
    /\ UNCHANGED harnessVars
    /\ pc = "save"
    /\ images_json' = Some(downloaded)
    /\ pc' = IF Len(downloaded) > 0 THEN "ocr" ELSE "done"
    /\ UNCHANGED <<session_of, query_sent, directory, directory_requests, ocr_printed, funds, funds_json, i, session,
                   announcements, status2,
                   nav_images, j, img_url, status3, downloaded, images, images_dir,
                   images_before, ocr_json, status4, sent, since_sleep, reported>>

(***************************************************************************)
(* main, step 4: OCR of the first downloaded image and its snapshot.       *)
(***************************************************************************)
\* except Exception as e: the two lines printed, for the exception e that
\* run_easyocr or extract_nav_data raised (the import of easyocr failing when
\* the engine is missing, anything else otherwise).
OcrHandler(kind) ==
    [error |-> IF kind = "engine_missing" THEN "ModuleNotFoundError" ELSE "Exception",
     advice |-> "Make sure easyocr is installed"]

\* first = downloaded[0]: the one image step 4 recognizes.
OcrTarget == downloaded[1]

RunOcr ==
    /\ UNCHANGED harnessVars
    /\ pc = "ocr"
    /\ \E reply \in OcrReplies :
        IF reply.kind = "results"
        THEN /\ ocr_json' = WriteJson(ocr_json, OcrTarget.symbol,
                                       extract_nav_data(reply.results))
             /\ status4' = "ok"
             /\ UNCHANGED ocr_printed
        ELSE /\ status4' = "OCR error"
             /\ ocr_printed' = Some(OcrHandler(reply.kind))
             /\ UNCHANGED ocr_json
    /\ pc' = "done"
    /\ UNCHANGED <<session_of, query_sent, directory, directory_requests, funds, funds_json, i, session,
                   announcements, status2,
                   nav_images, j, img_url, status3, downloaded, images, images_dir,
                   images_before, images_json, sent, since_sleep, reported>>

(***************************************************************************)
(* The exit status of the script: main returns after the closing banner   *)
(* and the interpreter exits normally, whatever happened to the funds; an  *)
(* exception that leaves main ends the interpreter with a traceback.       *)
(***************************************************************************)
ExitAfterReturn == 0
ExitAfterTraceback == 1

ExitStatus ==
    IF pc = "done" THEN Some(ExitAfterReturn)
    ELSE IF pc = "aborted" THEN Some(ExitAfterTraceback)
    ELSE None

(***************************************************************************)
(* find_latest_nav_announcement on its own: every list of up to MaxAnn     *)
(* announcements over the titles below; the url tells the entries apart.   *)
(***************************************************************************)
Titles ==
    {None,
     Some(<< >>),
     Some(TitleNAV),
     Some(TitleAGM),
     Some(<<"n", "a", " ", "v">>),
     Some(<<"s", "N", "a", "v", "e">>),
     Some(<<"N", "e", "t", " ", "A", "s", "s", "e", "t", "s", " ",
            "V", "a", "l", "u", "e">>)}

AnnouncementLists ==
    UNION {{[k \in 1..n |-> [date |-> "d", title |-> t[k], url |-> k]] :
                t \in [1..n -> Titles]} : n \in 0..MaxAnn}

SelIdle == sel_in = << >> /\ sel_out = None

SelInit == sel_in \in AnnouncementLists /\ sel_out = None

Select ==
    /\ UNCHANGED <<mainVars, locVars, dlVars, extractNavVars, poushVars>>
    /\ sel_out = None
    /\ sel_out' = Some(find_latest_nav_announcement(sel_in))
    /\ UNCHANGED sel_in

(***************************************************************************)
(* extract_image_url on its own: every page of up to MaxImgs img elements  *)
(* over the src attributes below.                                          *)
(***************************************************************************)
Srcs ==
    {None,
     Some(SrcLogo),
     Some(SrcA),
     Some(SrcB),
     Some(<<"/">> \o Marker \o <<"/", "c">> \o ExtJpeg),
     Some(<<"/">> \o Marker \o <<"/", "d", ".", "g", "i", "f">>),
     Some(<<"/">> \o Marker \o <<"/", "e", ".", "J", "P", "G">>),
     Some(<<"/">> \o Marker \o <<"/", "f">> \o ExtPng \o <<"?", "v">>)}

Pages == UNION {[1..n -> Srcs] : n \in 0..MaxImgs}

LocIdle == loc_in = << >> /\ loc_out = None

LocInit == loc_in \in Pages /\ loc_out = None

Locate ==
    /\ UNCHANGED <<mainVars, selVars, dlVars, extractNavVars, poushVars>>
    /\ loc_out = None
    /\ loc_out' = Some(extract_image_url(loc_in))
    /\ UNCHANGED loc_in

(***************************************************************************)
(* download_image on its own: up to MaxCalls calls in a row on the files   *)
(* of IMAGES_DIR, with any url and symbol below and any answer of the      *)
(* host.                                                                   *)
(***************************************************************************)
UrlHost == <<"h", ".", "n", "p", "/">>
Urls ==
    {UrlHost \o <<"a">> \o ExtJpg,
     UrlHost \o <<"b">> \o ExtJpg,
     UrlHost \o <<"a">> \o ExtPng,
     UrlHost \o <<"a">>,
     UrlHost \o <<".", "a">>}

Symbols == {SymA1, SymB}

Contents == {<<7, 7>>, <<8>>}

HarnessReplies ==
    {[kind |-> "transport_error", ok |-> FALSE, content |-> << >>],
     [kind |-> "response", ok |-> FALSE, content |-> <<4, 0, 4>>]}
    \cup {[kind |-> "response", ok |-> TRUE, content |-> c] : c \in Contents}

DlIdle ==
    /\ dl_calls = 0
    /\ dl_last = None
    /\ dl_repeat = FALSE
    /\ dl_written = {}
    /\ dl_latest = << >>

DownloadCall ==
    /\ UNCHANGED <<selVars, locVars, extractNavVars, poushVars>>
    /\ dl_calls < MaxCalls
    /\ \E url \in Urls, symbol \in Symbols, reply \in HarnessReplies :
        LET r == download_image(images, url, symbol, reply)
            call == [url |-> url, symbol |-> symbol, reply |-> reply]
        IN  /\ images' = r.store
            /\ dl_last' = Some(call)
            /\ dl_repeat' = (~r.raised /\ dl_last = Some(call))
            /\ IF r.raised
               THEN UNCHANGED <<dl_written, dl_latest>>
               ELSE /\ dl_written' = dl_written \cup
                           {[symbol |-> symbol, url |-> url,
                             path |-> FileName(url, symbol)]}
                    /\ dl_latest' =
                           [key \in DOMAIN dl_latest \cup {<<symbol, ExtOf(url)>>} |->
                               IF key = <<symbol, ExtOf(url)>> THEN reply.content
                               ELSE dl_latest[key]]
    /\ images_dir' = TRUE
    /\ images_before' = images
    /\ dl_calls' = dl_calls + 1
    /\ UNCHANGED <<session_of, query_sent, pc, directory, directory_requests, ocr_printed, funds, funds_json, i, session,
                   announcements,
                   status2, nav_images, j, img_url, status3, downloaded, images_json,
                   ocr_json, status4, sent, since_sleep, reported>>

(***************************************************************************)
(* parse_data on its own: every text made of up to MaxPieces of the pieces *)
(* below, which is what an OCR engine may return: keywords, parts of       *)
(* keywords, other characters, blanks, line feeds and the form feed that   *)
(* ends a page.                                                            *)
(***************************************************************************)
Pieces ==
    {<<"\n">>, <<" ">>, <<"\f">>, <<" ", "\n">>, KwNAV, <<"N", "A">>, <<"V">>, KwMulya,
     <<"x">>}

RECURSIVE TextsOf(_)
TextsOf(n) ==
    IF n = 0 THEN {<< >>}
    ELSE TextsOf(n - 1) \cup {t \o p : t \in TextsOf(n - 1), p \in Pieces}

RecognizedTexts == TextsOf(MaxPieces)

ParseIdle == parse_in = << >> /\ parse_out = None

ParseInit == parse_in \in RecognizedTexts /\ parse_out = None

ParseCall ==
    /\ UNCHANGED <<mainVars, selVars, locVars, dlVars, cliVars, poushVars>>
    /\ parse_out = None
    /\ parse_out' = Some(parse_data(parse_in))
    /\ UNCHANGED parse_in

(***************************************************************************)
(* extract_nav.py as a command: main, step by step, over the command       *)
(* lines, files, answers of the host and outcomes of the OCR engine below. *)
(***************************************************************************)
StartsWith(s, prefix) ==
    Len(s) >= Len(prefix) /\ SubSeq(s, 1, Len(prefix)) = prefix

Http == <<"h", "t", "t", "p">>
HttpScheme == Http \o <<":", "/", "/">>
HttpsScheme == Http \o <<"s", ":", "/", "/">>

UrlA == HttpScheme \o <<"h", "/", "a">> \o ExtPng
UrlS == HttpsScheme \o <<"h", "/", "a">> \o ExtJpg
PathA == <<"a">> \o ExtPng
PathB == <<"b", ".", "t", "x", "t">>
PathHttp == Http \o ExtPng
PathGone == <<"g", "o", "n", "e">> \o ExtPng

\* An image is held by its shape: rows, columns, channels.
ImageA == [h |-> 1, w |-> 2, ch |-> 3]
ImageB == [h |-> 2, w |-> 2, ch |-> 3]

\* The files that exist, each with what cv2.imread returns for it: an image,
\* or None for a file that is not an image.
LocalFiles ==
    [p \in {PathA, PathB, PathHttp} |->
        IF p = PathA THEN Some(ImageA) ELSE IF p = PathB THEN None ELSE Some(ImageB)]

CliSources == {UrlA, UrlS, PathA, PathB, PathHttp, PathGone}

CliArgs ==
    {[image |-> img, debug |-> d] :
        img \in {None} \cup {Some(src) : src \in CliSources}, d \in BOOLEAN}

\* What requests.get meets, with what cv2.imdecode makes of the content; a
\* source without an http or https scheme is refused before any request.
FetchReplies(source) ==
    IF StartsWith(source, HttpScheme) \/ StartsWith(source, HttpsScheme)
    THEN {[kind |-> "transport_error", ok |-> FALSE, decoded |-> None],
          [kind |-> "response", ok |-> FALSE, decoded |-> None],
          [kind |-> "response", ok |-> TRUE, decoded |-> None],
          [kind |-> "response", ok |-> TRUE, decoded |-> Some(ImageA)],
          [kind |-> "response", ok |-> TRUE, decoded |-> Some(ImageB)]}
    ELSE {[kind |-> "invalid_url", ok |-> FALSE, decoded |-> None]}

\* What pytesseract.image_to_string does.
CliTexts ==
    {<< >>,
     <<"\f">>,
     KwNAV \o <<" ", "1", "0", ".", "5", "\n", "\f">>,
     KwMulya \o <<"\n", " ", "\n">> \o KwNAV \o <<" ", "x", "\n">>}

EngineOutcomes ==
    {[kind |-> "missing", text |-> << >>], [kind |-> "failure", text |-> << >>]}
    \cup {[kind |-> "text", text |-> t] : t \in CliTexts}

\* get_image: the exception raised, or what is returned (None included).
get_image(source, reply) ==
    IF StartsWith(source, Http)
    THEN IF reply.kind # "response" \/ ~reply.ok
         THEN [exc |-> Some("RequestException"), img |-> None]
         ELSE [exc |-> None, img |-> reply.decoded]
    ELSE IF source \in DOMAIN LocalFiles
         THEN [exc |-> None, img |-> LocalFiles[source]]
         ELSE [exc |-> Some("FileNotFoundError"), img |-> None]

\* preprocess_image: resize by fx=2, fy=2, then one channel.
preprocess_image(image) == [h |-> 2 * image.h, w |-> 2 * image.w, ch |-> 1]

ExitUsage == 2
ExitFailure == 1

\* A handler that only prints leaves main by its end.
FallThrough == Some(ExitAfterReturn)

\* Both handlers end with sys.exit(1).
AfterHandler == Some(ExitFailure)

notCliVars == <<mainVars, selVars, locVars, dlVars, parseVars, poushVars>>

CliIdle ==
    /\ cli_pc = "idle"
    /\ cli_args = None /\ cli_reply = None /\ cli_img = None
    /\ cli_processed = None /\ cli_debug_file = FALSE
    /\ cli_engine = None /\ cli_text = None /\ cli_exc = None
    /\ cli_stdout = << >> /\ cli_stderr = << >> /\ cli_exit = None

CliStart ==
    /\ cli_pc = "args"
    /\ cli_args = None /\ cli_reply = None /\ cli_img = None
    /\ cli_processed = None /\ cli_debug_file = FALSE
    /\ cli_engine = None /\ cli_text = None /\ cli_exc = None
    /\ cli_stdout = << >> /\ cli_stderr = << >> /\ cli_exit = None

\* parser.parse_args(): --image is required.
ParseArgs ==
    /\ UNCHANGED notCliVars
    /\ cli_pc = "args"
    /\ \E args \in CliArgs :
        /\ cli_args' = Some(args)
        /\ IF args.image = None
           THEN /\ cli_stderr' = Append(cli_stderr, "usage")
                /\ cli_exit' = Some(ExitUsage)
                /\ cli_pc' = "exited"
           ELSE /\ cli_pc' = "get_image"
                /\ UNCHANGED <<cli_stderr, cli_exit>>
    /\ UNCHANGED <<cli_reply, cli_img, cli_processed, cli_debug_file, cli_engine,
                   cli_text, cli_exc, cli_stdout>>

\* img = get_image(args.image)
GetImage ==
    /\ UNCHANGED notCliVars
    /\ cli_pc = "get_image"
    /\ LET source == Val(Val(cli_args).image)
       IN  \E reply \in FetchReplies(source) :
            LET r == get_image(source, reply)
            IN  /\ cli_reply' = IF StartsWith(source, Http) THEN Some(reply) ELSE None
                /\ IF IsSome(r.exc)
                   THEN /\ cli_exc' = r.exc
                        /\ cli_pc' = "except"
                        /\ UNCHANGED cli_img
                   ELSE /\ cli_img' = Some(r.img)
                        /\ cli_pc' = "preprocess"
                        /\ UNCHANGED cli_exc
    /\ UNCHANGED <<cli_args, cli_processed, cli_debug_file, cli_engine, cli_text,
                   cli_stdout, cli_stderr, cli_exit>>

\* processed_img = preprocess_image(img): image.shape of None raises.
PreprocessImage ==
    /\ UNCHANGED notCliVars
    /\ cli_pc = "preprocess"
    /\ IF Val(cli_img) = None
       THEN /\ cli_exc' = Some("AttributeError")
            /\ cli_pc' = "except"
            /\ UNCHANGED <<cli_processed, cli_stderr>>
       ELSE /\ cli_stderr' = Append(cli_stderr, "Original Image Shape")
            /\ cli_processed' = Some(preprocess_image(Val(Val(cli_img))))
            /\ cli_pc' = "debug"
            /\ UNCHANGED cli_exc
    /\ UNCHANGED <<cli_args, cli_reply, cli_img, cli_debug_file, cli_engine, cli_text,
                   cli_stdout, cli_exit>>

\* cv2.imwrite('debug_processed.png', processed_img) without the test of
\* args.debug.
DebugWriteAlways ==
    /\ UNCHANGED notCliVars
    /\ cli_pc = "debug"
    /\ cli_debug_file' = TRUE
    /\ cli_pc' = "extract_text"
    /\ UNCHANGED <<cli_args, cli_reply, cli_img, cli_processed, cli_engine, cli_text,
                   cli_exc, cli_stdout, cli_stderr, cli_exit>>

\* if args.debug: cv2.imwrite('debug_processed.png', processed_img)
DebugWrite ==
    /\ UNCHANGED notCliVars
    /\ cli_pc = "debug"
    /\ cli_debug_file' = Val(cli_args).debug
    /\ cli_pc' = "extract_text"
    /\ UNCHANGED <<cli_args, cli_reply, cli_img, cli_processed, cli_engine, cli_text,
                   cli_exc, cli_stdout, cli_stderr, cli_exit>>

\* text = extract_text(processed_img)
ExtractText ==
    /\ UNCHANGED notCliVars
    /\ cli_pc = "extract_text"
    /\ \E outcome \in EngineOutcomes :
        /\ cli_engine' = Some(outcome.kind)
        /\ IF outcome.kind = "text"
           THEN /\ cli_text' = Some(outcome.text)
                /\ cli_pc' = "parse"
                /\ UNCHANGED cli_exc
           ELSE /\ cli_exc' = Some(IF outcome.kind = "missing"
                                    THEN "TesseractNotFoundError"
                                    ELSE "TesseractError")
                /\ cli_pc' = "except"
                /\ UNCHANGED cli_text
    /\ UNCHANGED <<cli_args, cli_reply, cli_img, cli_processed, cli_debug_file,
                   cli_stdout, cli_stderr, cli_exit>>

\* data = parse_data(text); print(json.dumps(data, ...))
ParseAndPrint ==
    /\ UNCHANGED notCliVars
    /\ cli_pc = "parse"
    /\ cli_stdout' = Append(cli_stdout, parse_data(Val(cli_text)))
    /\ cli_pc' = "return"
    /\ UNCHANGED <<cli_args, cli_reply, cli_img, cli_processed, cli_debug_file,
                   cli_engine, cli_text, cli_exc, cli_stderr, cli_exit>>

\* main returns and the interpreter exits.
CliReturn ==
    /\ UNCHANGED notCliVars
    /\ cli_pc = "return"
    /\ cli_exit' = Some(ExitAfterReturn)
    /\ cli_pc' = "exited"
    /\ UNCHANGED <<cli_args, cli_reply, cli_img, cli_processed, cli_debug_file,
                   cli_engine, cli_text, cli_exc, cli_stdout, cli_stderr>>

\* except pytesseract.TesseractNotFoundError
HandleTesseractNotFound ==
    /\ UNCHANGED notCliVars
    /\ cli_pc = "except"
    /\ cli_exc = Some("TesseractNotFoundError")
    /\ cli_stderr' = Append(cli_stderr, "error: Tesseract not found")
    /\ cli_exit' = AfterHandler
    /\ cli_pc' = "exited"
    /\ UNCHANGED <<cli_args, cli_reply, cli_img, cli_processed, cli_debug_file,
                   cli_engine, cli_text, cli_exc, cli_stdout>>

\* except Exception as e
HandleException ==
    /\ UNCHANGED notCliVars
    /\ cli_pc = "except"
    /\ cli_exc # Some("TesseractNotFoundError")
    /\ cli_stderr' = Append(cli_stderr, "error")
    /\ cli_exit' = AfterHandler
    /\ cli_pc' = "exited"
    /\ UNCHANGED <<cli_args, cli_reply, cli_img, cli_processed, cli_debug_file,
                   cli_engine, cli_text, cli_exc, cli_stdout>>

(***************************************************************************)
(* build_poush_nav.py, scale_holdings.  A dict is a function on its keys;  *)
(* a multiplier is held in thousandths.  round() of the float product is   *)
(* the nearest integer; when the exact product lies halfway between two    *)
(* integers the float product decides (round(10 * 1.05) is 10,             *)
(* round(30 * 1.05) is 32, round(300 * 1.005) is 301), so either neighbour *)
(* can come out.                                                           *)
(***************************************************************************)
SECTOR_MULTIPLIERS ==
    ("commercial_banks" :> 1110) @@ ("development_banks" :> 1100) @@
    ("finance_companies" :> 1080) @@ ("life_insurance" :> 1080) @@
    ("non_life_insurance" :> 1080) @@ ("hydropower" :> 1070) @@
    ("hotels" :> 1080) @@ ("manufacturing" :> 1050) @@
    ("microfinance" :> 1080) @@ ("others" :> 1050) @@
    ("fixed_deposits" :> 1005) @@ ("government_bonds" :> 1000) @@
    ("corporate_debentures" :> 1000)

DefaultMultiplier == 1050

\* multipliers.get(sector, 1.05)
MultiplierGet(multipliers, sector) ==
    IF sector \in DOMAIN multipliers THEN multipliers[sector] ELSE DefaultMultiplier

\* round(item["value"] * mult)
RoundProduct(value, mult, up) ==
    LET q == (value * mult) \div 1000
        r == (value * mult) % 1000
    IN  IF r < 500 THEN q
        ELSE IF r > 500 THEN q + 1
        ELSE IF up THEN q + 1 ELSE q

ScaledItems(items, mult, up) ==
    [n \in 1..Len(items) |->
        [items[n] EXCEPT !.value = RoundProduct(items[n].value, mult, up)]]

\* A variant with new_item = item: the items of the input are the items of
\* the result.
scale_in_place(holdings, multipliers, up) ==
    LET scaled == [sector \in DOMAIN holdings |->
                      ScaledItems(holdings[sector],
                                  MultiplierGet(multipliers, sector), up)]
    IN  [returned |-> scaled, holdings |-> scaled]

\* scale_holdings: what is returned, and the input dict after the call.
\* new_item = dict(item) is a copy, new_items and new_holdings are new.
scale_holdings(holdings, multipliers, up) ==
    [returned |-> [sector \in DOMAIN holdings |->
                      ScaledItems(holdings[sector],
                                  MultiplierGet(multipliers, sector), up)],
     holdings |-> holdings]

\* The inputs: holdings of up to MaxItems items in each of two sectors, one
\* with a multiplier in SECTOR_MULTIPLIERS and one without.
ItemPool ==
    {[name |-> "A", units |-> 10, value |-> 100],
     [name |-> "B", units |-> 0, value |-> 300],
     [name |-> "A", units |-> 7, value |-> 10]}

ItemLists == UNION {[1..n -> ItemPool] : n \in 0..MaxItems}

HoldingsMaps ==
    UNION {[S -> ItemLists] : S \in SUBSET {"fixed_deposits", "mutual_funds"}}

MultiplierMaps ==
    {SECTOR_MULTIPLIERS, << >>, ("mutual_funds" :> 2000)}

ScaleIdle ==
    /\ sc_holdings = << >> /\ sc_before = << >>
    /\ sc_multipliers = << >> /\ sc_out = None

ScaleInit ==
    /\ sc_holdings \in HoldingsMaps
    /\ sc_before = sc_holdings
    /\ sc_multipliers \in MultiplierMaps
    /\ sc_out = None

ScaleCall ==
    /\ UNCHANGED <<mainVars, selVars, locVars, dlVars, extractNavVars, fixVars>>
    /\ sc_out = None
    /\ \E up \in BOOLEAN :
        LET r == scale_holdings(sc_holdings, sc_multipliers, up)
        IN  /\ sc_out' = Some(r.returned)
            /\ sc_holdings' = r.holdings
    /\ UNCHANGED <<sc_before, sc_multipliers>>

FixIdle ==
    /\ fx_pc = "idle" /\ fx_data = << >> /\ fx_k = 0 /\ fx_n = 0
    /\ fx_fixed = {} /\ fx_saved = None

(***************************************************************************)
(* fix_poush_nav.py.  data is the list of funds loaded from the JSON file, *)
(* each a symbol with its holdings dict; fund_map finds a fund of data by  *)
(* its symbol, and a fix function changes that fund's holdings in place.   *)
(* Every sector of a loaded fund holds a list.                             *)
(***************************************************************************)
h(name, units, value) == [name |-> name, units |-> units, value |-> value]

\* holdings[sector] = items
Assign(holdings, sector, items) == (sector :> items) @@ holdings

\* The loop after "# Deduplicate": an item is kept when its name was not seen.
RECURSIVE Deduplicate(_, _)
Deduplicate(items, seen) ==
    IF items = << >> THEN << >>
    ELSE IF Head(items).name \in seen
         THEN Deduplicate(Tail(items), seen)
         ELSE <<Head(items)>> \o Deduplicate(Tail(items), seen \cup {Head(items).name})

\* fix_niblsf, lines 45-70: each statement assigns one sector of the fund.
fix_niblsf(holdings) ==
    LET s0 == holdings
        s1 == Assign(s0, "mutual_funds", <<
            h("NIC Asia Flexi Cap Fund", 469000, 4370540),
            h("Sanima Growth Fund", 600000, 5636000),
            h("Sunrise Focused Equity Fund", 1243600, 11926124),
            h("Prabhu Smart Fund", 200000, 2196000),
            h("RBB Mutual Fund - 2", 136000, 1052261),
            h("Siddhartha Investment Growth Scheme 1", 231000, 2332330),
            h("Citizens Super 30 Mutual Fund", 732000, 6928660),
            h("Laxmi Value Fund 2", 435000, 4493020),
            h("Himalayan 50-20", 600000, 7080000),
            h("NIC Asia Growth Fund-2", 2400000, 22040000),
            h("Kumari Sabal Yojana", 2640000, 15228000),
            h("Muktinath Mutual Fund 1", 240000, 2300000),
            h("Garima Samriddhi Yojana", 2000000, 9060000),
            h("NMB Hybrid Fund L-2", 600000, 4524000),
            h("MBL Equity Fund", 300000, 2654000),
            h("Reliable Samriddhi Yojana", 300000, 2930000),
            h("Global IME Samunnat Yojana 2", 1400000, 13950000),
            h("HLI Large Cap Fund", 1000000, 9000000) >>)
    IN  s1

\* fix_ssis, lines 154-237: each statement assigns one sector of the fund.
fix_ssis(holdings) ==
    LET s0 == holdings
        s1 == Assign(s0, "hydropower", <<
            h("Api Power Company Limited", 46000, 13566400),
            h("Arun Kabeli Power Limited", 20000, 4920000),
            h("Butwal Power Company Limited", 22680, 9294619),
            h("Sanima Middle Tamor Hydropower Limited", 39645, 14923440),
            h("Sanima Mai Hydropower Limited", 26460, 9654460),
            h("Mountain Energy Nepal Limited", 49432, 28406640),
            h("Sahas Urja Limited", 31522, 11396994),
            h("Upper Solu Hydro Electric Company Limited", 22768, 10345806),
            h("Bujjal Hydro Limited", 2442, 928204),
            h("Darmakhola Hydro Energy Limited", 9393, 540624),
            h("Him Star Urja Company Limited", 646, 463452),
            h("Mabilung Energy Limited", 700, 505400),
            h("Mandu Hydropower Limited", 19993, 16934964),
            h("Dadi Group Power Limited", 34040, 13513000),
            h("Sagarmatha Jalvidyut Company Limited", 39500, 19493000),
            h("Kalika Power Company Limited", 17940, 5972990),
            h("Sahas Urja Limited", 15966, 6309451) >>)
        s2 == Assign(s1, "manufacturing", <<
            h("Shivam Cements Limited", 234950, 63609240),
            h("Sarbottam Cement Limited", 63646, 93200452),
            h("Unilever Nepal Limited", 760, 36036000),
            h("Himalayan Distillery Limited", 26000, 20402000),
            h("SY Panel Nepal Limited", 3202, 4530334),
            h("Shrinagar Agritech Industries Limited", 2952, 2369000),
            h("Sagar Distillery Limited", 1086, 2242380),
            h("Shivam Cements Limited", 8640, 3919104) >>)
        s3 == Assign(s2, "manufacturing", <<
            h("Shivam Cements Limited", 234950, 63609240),
            h("Sarbottam Cement Limited", 63646, 93200452),
            h("Unilever Nepal Limited", 760, 36036000),
            h("Himalayan Distillery Limited", 26000, 20402000),
            h("SY Panel Nepal Limited", 3202, 4530334),
            h("Shrinagar Agritech Industries Limited", 2952, 2369000),
            h("Sagar Distillery Limited", 1086, 2242380) >>)
        s4 == Assign(s3, "hotels", <<
            h("Soaltee Hotel Limited", 30922, 25399296),
            h("Chandragiri Hills Limited", 8000, 3404000),
            h("Bandipur Kewalkar & Tourism Limited", 3676, 3052060) >>)
        s5 == Assign(s4, "non_life_insurance", <<
            h("Neco Insurance Limited", 13140, 10162001),
            h("Sagarmatha Lumbini Insurance Company Limited", 7560, 5005022),
            h("Siddharth Premier Insurance Limited", 10860, 5453795),
            h("Shikhar Insurance Company Limited", 13140, 10162001) >>)
        s6 == Assign(s5, "others", <<
            h("Nepal Telecom", 17640, 16299360),
            h("Citizen Investment Trust", 15300, 22009050),
            h("CEIDB Holdings Limited", 22202, 46666304),
            h("Jalvidyut Lagani Tatha Vikas Company Limited", 95948, 15275921),
            h("Trade Tower Limited", 2756, 2303462),
            h("Jhapa Energy Limited", 399, 563222) >>)
        s7 == Assign(s6, "mutual_funds", <<
            h("NMB Hybrid Fund L-2", 2000000, 9240000),
            h("Garima Samriddhi Yojana", 2000000, 9060000),
            h("RBB Focus 40", 750000, 9500000),
            h("MBL Equity Fund", 499900, 4628034),
            h("NIC Asia Growth Fund 2", 500000, 4550000),
            h("Kumari Sabal Yojana", 279450, 2268942),
            h("NIBL Stable Fund", 80000, 280200) >>)
    IN  s7

\* fix_nfcf, lines 240-373: each statement assigns one sector of the fund.
fix_nfcf(holdings) ==
    LET s0 == holdings
        s1 == Assign(s0, "hydropower", <<
            h("Aankhu Khola Jalvidyut Company Limited", 5000, 9048000),
            h("Aap Power Company Limited", 10000, 5500000),
            h("Arun Kabeli Power Limited", 200200, 6250000),
            h("Arun Valley Hydropower Development Company Limited", 224996, 18816795),
            h("Asian Hydropower Limited", 9430, 8022000),
            h("Vikash Hydropower Company Limited", 5000, 2650000),
            h("Buddha Bhumi Nepal Hydropower Company Limited", 32220, 20060000),
            h("Bujjal Hydro Limited", 2209, 1323655),
            h("Butwal Power Company Limited", 50002, 9663769),
            h("Darmakhola Hydro Energy Limited", 9685, 1939600),
            h("Green Ventures Limited", 4036, 3500000),
            h("Him Star Urja Company Limited", 850, 618000),
            h("Himalayan Power Partner Limited", 6000, 3226000),
            h("Indra Hydropower Limited", 6500, 4555000),
            h("Kalika Power Company Limited", 3800, 2200000),
            h("Mabilung Energy Limited", 1432, 1035000),
            h("Mailud Khola Jalvidyut Company Limited", 14200, 2926000),
            h("Mandakini Hydropower Limited", 20000, 7500000),
            h("Mountain Energy Nepal Limited", 27604, 6528000),
            h("National Hydro Power Company Limited", 29200, 26254000),
            h("Nepal Hydro Developers Limited", 29334, 5800000),
            h("Ridi Group Power Limited", 25005, 50293772),
            h("Peoples Hydropower Company Limited", 27302, 20506646),
            h("Sanima Mai Hydropower Limited", 27630, 10081358),
            h("Sanima Middle Tamor Hydropower Limited", 20000, 8000000),
            h("Chilime Hydropower Company Limited", 23130, 17002632),
            h("Upper Tamakoshi Hydropower Limited", 28410, 18816795),
            h("Ridi Hydropower Development Company Limited", 26605, 3666364),
            h("Peoples Hydropower Company Limited", 27302, 20506646),
            h("Sagarmatha Jalvidyut Company Limited", 15000, 7500000),
            h("Sahas Urja Limited", 14500, 5500000),
            h("Universal Power Company Limited", 23000, 8262300) >>)
        s2 == Assign(s1, "hydropower", Deduplicate(s1["hydropower"], {}))
        s3 == Assign(s2, "non_life_insurance", <<
            h("Himalayan Everest Insurance Limited", 11360, 5936003),
            h("IGI Prudential Insurance Limited", 65484, 8000000),
            h("Neco Insurance Limited", 9050, 628900),
            h("Nepal Insurance Company Limited", 96226, 7000000),
            h("Nepal Micro Insurance Company Limited", 1932, 800000),
            h("Prabhu Insurance Limited", 23905, 16695548),
            h("Sagarmatha Lumbini Insurance Company Limited", 6300, 5203634),
            h("Sanima GIC Insurance Limited", 45322, 7000000),
            h("United Ajod Insurance Limited", 46229, 7076554) >>)
        s4 == Assign(s3, "life_insurance", <<
            h("Asian Life Insurance Company Limited", 35502, 22643400),
            h("Citizen Life Insurance Company Limited", 55946, 12000000),
            h("Nepal Life Insurance Company Limited", 28290, 42835586),
            h("National Life Insurance Company Limited", 6966, 4020000),
            h("Prabhu Mahalaxmi Life Insurance Limited", 20903, 9664930),
            h("Reliable Nepal Life Insurance Limited", 6840, 3935964),
            h("Sun Nepal Life Insurance Company Limited", 4209, 2995000),
            h("Suryajyoti Life Insurance Company Limited", 23000, 20244400),
            h("Life Insurance Corporation Nepal Limited", 6930, 6580732),
            h("Surya Life Insurance Company Limited", 15330, 6821237),
            h("Himalayan Life Insurance Company Limited", 15000, 5500000) >>)
        s5 == Assign(s4, "microfinance", <<
            h("Chhimek Laghubitta Bittiya Sanstha Limited", 4800, 9165312),
            h("Nirdhan Utthan Laghubitta Bittiya Sanstha Limited", 5640, 6883056),
            h("Mithila Laghubitta Bittiya Sanstha Limited", 57, 34295),
            h("National Laghubitta Bittiya Sanstha Limited", 3000, 2500000),
            h("Sana Kisan Bikas Laghubitta Bittiya Sanstha Limited", 4320, 4478976),
            h("Swabalamban Laghubitta Bittiya Sanstha Limited", 2000, 1500000),
            h("Swadhin Laghubitta Bittiya Sanstha Limited", 1500, 1200000),
            h("Ashalay Laghubitta Bittiya Sanstha Limited", 79154, 8000000) >>)
        s6 == Assign(s5, "manufacturing", <<
            h("Unilever Nepal Limited", 1020, 19278000),
            h("Shivam Cements Limited", 20052, 10000000),
            h("Sarbottam Cement Limited", 7000, 6100000),
            h("Shrinagar Agritech Industries Limited", 2952, 2369000),
            h("SY Panel Nepal Limited", 3706, 5130000) >>)
        s7 == Assign(s6, "hotels", <<
            h("Bandipur Kewalkar & Tourism Limited", 5203, 4326840),
            h("Chandragiri Hills Limited", 20500, 6934500),
            h("Oriental Hotels Limited", 30000, 22220000),
            h("Taragaon Regency Hotels Limited", 20000, 7200000) >>)
        s8 == Assign(s7, "others", <<
            h("Himalayan Reinsurance Limited", 79552, 69039440),
            h("Jhapa Energy Limited", 462, 629604),
            h("Muktinath Krishi Company Limited", 9344, 20026942),
            h("Nepal Telecom", 24000, 22904000),
            h("Nepal Punarbima Company Limited", 23000, 29043000),
            h("Trade Tower Limited", 3422, 2856054) >>)
        s9 == Assign(s8, "investment", <<
            h("CEIDB Holdings Limited", 21646, 26936930),
            h("Citizen Investment Trust", 26429, 39493046),
            h("Jalvidyut Lagani Tatha Vikas Company Limited", 202823, 25660946),
            h("Nepal Infrastructure Bank Limited", 10000, 5000000),
            h("NRN Infrastructure & Development Limited", 23494, 26655455) >>)
        s10 == Assign(s9, "mutual_funds", <<
            h("HLI Large Cap Fund", 250000, 2250000),
            h("MBL Equity Fund", 300000, 2442400),
            h("NMB Hybrid Fund L-2", 250000, 2320000),
            h("Reliable Samriddhi Yojana", 500000, 4695000),
            h("Sunrise Bluechip Fund", 326362, 2954936) >>)
    IN  s10

NameOld == "Sagarmatha Insurance Company Limited"
NameNew == "Sagarmatha Lumbini Insurance Company Limited"

COMPANY_RENAMES == (NameOld :> NameNew)

apply_renames(holdings) ==
    [sector \in DOMAIN holdings |->
        [n \in 1..Len(holdings[sector]) |->
            IF holdings[sector][n].name \in DOMAIN COMPANY_RENAMES
            THEN [holdings[sector][n] EXCEPT !.name = COMPANY_RENAMES[@]]
            ELSE holdings[sector][n]]]

\* The keys of fixes, in the order of the dict.
fixes ==
    <<"NIBLSF", "NMBSBF", "SSIS", "NFCF", "NADDF", "KSLY",
      "CSDY", "SLK", "SFF", "PSIS", "ELIS", "NI31">>

\* fixes[symbol](fund).  The files considered hold no fund of the other nine
\* symbols, whose fix functions are therefore not called.
fix_fn(symbol, holdings) ==
    CASE symbol = "NIBLSF" -> fix_niblsf(holdings)
      [] symbol = "SSIS" -> fix_ssis(holdings)
      [] symbol = "NFCF" -> fix_nfcf(holdings)
      [] OTHER -> holdings

\* The files loaded: any of four funds, in the order of the file, each with
\* holdings the previous month's build left.
LoadedHoldings ==
    {<< >>,
     ("non_life_insurance" :> <<h(NameOld, 100, 50000)>>),
     ("non_life_insurance" :> <<h(NameNew, 100, 50000)>>)
        @@ ("fixed_deposits" :> <<h("Nabil Bank Limited", 0, 1000000)>>)}

LoadedSymbols == <<"NIBLSF", "SSIS", "NFCF", "MSY">>

RECURSIVE FundsOf(_, _)
FundsOf(present, n) ==
    IF n > Len(LoadedSymbols) THEN {<< >>}
    ELSE IF LoadedSymbols[n] \in present
         THEN {<<[symbol |-> LoadedSymbols[n], holdings |-> hs]>> \o rest :
                  hs \in LoadedHoldings, rest \in FundsOf(present, n + 1)}
         ELSE FundsOf(present, n + 1)

LoadedFiles == UNION {FundsOf(present, 1) : present \in SUBSET {"NIBLSF", "SSIS", "NFCF", "MSY"}}

\* symbol in fund_map
InFundMap(data, symbol) == \E n \in 1..Len(data) : data[n].symbol = symbol

notFixVars == <<mainVars, selVars, locVars, dlVars, extractNavVars, scaleVars>>

\* After load_nav and the building of fund_map.
FixStart ==
    /\ fx_pc = "fixes" /\ fx_data \in LoadedFiles /\ fx_k = 1 /\ fx_n = 0
    /\ fx_fixed = {} /\ fx_saved = None

\* One round of the loop over fixes for a symbol of the file: the fix
\* function, then apply_renames, on that fund.
FixFund ==
    /\ UNCHANGED notFixVars
    /\ fx_pc = "fixes" /\ fx_k <= Len(fixes)
    /\ InFundMap(fx_data, fixes[fx_k])
    /\ fx_data' = [n \in 1..Len(fx_data) |->
                      IF fx_data[n].symbol = fixes[fx_k]
                      THEN [fx_data[n] EXCEPT !.holdings =
                               apply_renames(fix_fn(fixes[fx_k], @))]
                      ELSE fx_data[n]]
    /\ fx_fixed' = fx_fixed \cup {fixes[fx_k]}
    /\ fx_k' = fx_k + 1
    /\ UNCHANGED <<fx_pc, fx_n, fx_saved>>

\* One round of the loop for a symbol the file does not hold: the WARNING.
FixWarn ==
    /\ UNCHANGED notFixVars
    /\ fx_pc = "fixes" /\ fx_k <= Len(fixes)
    /\ ~InFundMap(fx_data, fixes[fx_k])
    /\ fx_k' = fx_k + 1
    /\ UNCHANGED <<fx_pc, fx_data, fx_n, fx_fixed, fx_saved>>

\* The loop over fixes is over; the loop over data begins.
FixesDone ==
    /\ UNCHANGED notFixVars
    /\ fx_pc = "fixes" /\ fx_k > Len(fixes)
    /\ fx_pc' = "renames" /\ fx_n' = 1
    /\ UNCHANGED <<fx_data, fx_k, fx_fixed, fx_saved>>

\* One round of "for fund in data: apply_renames(fund)".
RenameFund ==
    /\ UNCHANGED notFixVars
    /\ fx_pc = "renames" /\ fx_n <= Len(fx_data)
    /\ fx_data' = [fx_data EXCEPT ![fx_n].holdings = apply_renames(@)]
    /\ fx_n' = fx_n + 1
    /\ UNCHANGED <<fx_pc, fx_k, fx_fixed, fx_saved>>

\* save_nav(data), and the summary, which changes nothing.
SaveNav ==
    /\ UNCHANGED notFixVars
    /\ fx_pc = "renames" /\ fx_n > Len(fx_data)
    /\ fx_saved' = Some(fx_data)
    /\ fx_pc' = "done"
    /\ UNCHANGED <<fx_data, fx_k, fx_n, fx_fixed>>

(***************************************************************************)
(* Specifications.                                                         *)
(***************************************************************************)
vars == <<mainVars, selVars, locVars, dlVars, parseVars, cliVars, scaleVars, fixVars>>

\* The batch run.
Init == MainInit /\ SelIdle /\ LocIdle /\ DlIdle /\ ParseIdle /\ CliIdle /\ ScaleIdle /\ FixIdle

Next ==
    \/ FetchOpenEndFunds
    \/ ProfileFetch
    \/ AnnouncementQuery
    \/ Sleep2
    \/ LocateImage
    \/ DownloadImage
    \/ Sleep3
    \/ SaveImagesJson
    \/ RunOcr

Spec == Init /\ [][Next]_vars

\* The batch run as the interpreter executes it: main is one sequential
\* program, so a statement that can be executed is executed; every request
\* ends, with a response or with an exception.
SpecLive == Spec /\ WF_vars(Next)

\* find_latest_nav_announcement applied to a list.
SelectInit == MainInit /\ SelInit /\ LocIdle /\ DlIdle /\ ParseIdle /\ CliIdle /\ ScaleIdle /\ FixIdle

SelectNext == Select

SpecSelect == SelectInit /\ [][SelectNext]_vars

\* extract_image_url applied to a page.
LocateInit == MainInit /\ SelIdle /\ LocInit /\ DlIdle /\ ParseIdle /\ CliIdle /\ ScaleIdle /\ FixIdle

LocateNext == Locate

SpecLocate == LocateInit /\ [][LocateNext]_vars

\* download_image called repeatedly.
DownloadInit == MainInit /\ SelIdle /\ LocIdle /\ DlIdle /\ ParseIdle /\ CliIdle /\ ScaleIdle /\ FixIdle

DownloadNext == DownloadCall

SpecDownload == DownloadInit /\ [][DownloadNext]_vars

\* parse_data applied to a recognized text.
ParseDataInit == MainInit /\ SelIdle /\ LocIdle /\ DlIdle /\ ParseInit /\ CliIdle /\ ScaleIdle /\ FixIdle

ParseDataNext == ParseCall

SpecParse == ParseDataInit /\ [][ParseDataNext]_vars

\* extract_nav.py run once on a command line.
CliInit == MainInit /\ SelIdle /\ LocIdle /\ DlIdle /\ ParseIdle /\ CliStart /\ ScaleIdle /\ FixIdle

CliNext ==
    \/ ParseArgs
    \/ GetImage
    \/ PreprocessImage
    \/ DebugWrite
    \/ ExtractText
    \/ ParseAndPrint
    \/ CliReturn
    \/ HandleTesseractNotFound
    \/ HandleException

SpecCli == CliInit /\ [][CliNext]_vars

\* scale_holdings applied to a holdings dict and a multipliers dict.
ScaleHoldingsInit ==
    MainInit /\ SelIdle /\ LocIdle /\ DlIdle /\ ParseIdle /\ CliIdle /\ ScaleInit /\ FixIdle

ScaleHoldingsNext == ScaleCall

SpecScale == ScaleHoldingsInit /\ [][ScaleHoldingsNext]_vars

\* main of fix_poush_nav.py on a loaded file.
FixInit ==
    MainInit /\ SelIdle /\ LocIdle /\ DlIdle /\ ParseIdle /\ CliIdle /\ ScaleIdle /\ FixStart

FixNext == FixFund \/ FixWarn \/ FixesDone \/ RenameFund \/ SaveNav

SpecFix == FixInit /\ [][FixNext]_vars

(***************************************************************************)
(* Properties.                                                             *)
(***************************************************************************)
Min(S) == CHOOSE x \in S : \A y \in S : x <= y

DirectoryFailed == IsSome(directory) /\ Raised(Val(directory))

AfterLoops == pc \in {"save", "ocr", "done"}

\* C1 (isolation): only a failed directory request ends the run early; once
\* the loops are over every fund had its profile request and a printed step 2
\* outcome, and every fund with an announcement had its detail-page request
\* and a printed step 3 outcome, whatever raised for the other funds.
C1_Isolation ==
    /\ pc = "aborted" => DirectoryFailed
    /\ AfterLoops =>
        \A k \in 1..Len(funds) :
            /\ sent[k].profile = 1
            /\ status2[k] # "pending"
            /\ status2[k] = "found" => sent[k].detail = 1 /\ status3[k] # "pending"

\* A finished run in which fund n raised and its two neighbours were saved.
C1_Witness ==
    /\ pc = "done"
    /\ \E n \in 2..(Len(funds) - 1) :
        /\ status2[n] = "error"
        /\ status3[n - 1] = "saved"
        /\ status3[n + 1] = "saved"

\* A title has one of the disclosure keywords, letter case ignored.
HasIgnoringCase(title, kw) ==
    \E k \in 0..(Len(title) - Len(kw)) :
        \A m \in 1..Len(kw) : LowerChar(title[k + m]) = kw[m]

MatchesKeywordSet(ann) ==
    \/ HasIgnoringCase(TitleGet(ann), KwNav)
    \/ HasIgnoringCase(TitleGet(ann), KwNetAssetsValue)

NoTitleMatches(anns) == \A k \in 1..Len(anns) : ~MatchesKeywordSet(anns[k])

\* C2 (absence): a fund whose announcement list holds no matching title
\* (the empty list included) gets the not-found value, is printed as having
\* no NAV announcement, is not in nav_images and causes no detail-page or
\* image request.
C2_Absence ==
    \A k \in 1..Len(funds) :
        (IsSome(announcements[k]) /\ NoTitleMatches(Val(announcements[k]))) =>
            /\ find_latest_nav_announcement(Val(announcements[k])) = None
            /\ status2[k] = "no NAV announcement found"
            /\ \A n \in 1..Len(nav_images) : nav_images[n].idx # k
            /\ sent[k].detail = 0
            /\ sent[k].image = 0

\* A finished run with a fund that got the empty list and a fund that got a
\* non-empty list without a match.
C2_Witness ==
    /\ pc = "done"
    /\ \E k \in 1..Len(funds) : announcements[k] = Some(<< >>)
    /\ \E k \in 1..Len(funds) :
        /\ IsSome(announcements[k])
        /\ Len(Val(announcements[k])) > 0
        /\ NoTitleMatches(Val(announcements[k]))

\* C3 (selection): the value returned is the entry of least index whose
\* title matches, and none exactly when no title matches.
C3_Selection ==
    IsSome(sel_out) =>
        LET hits == {k \in 1..Len(sel_in) : MatchesKeywordSet(sel_in[k])}
        IN  /\ hits = {} => Val(sel_out) = None
            /\ hits # {} => Val(sel_out) = Some(sel_in[Min(hits)])

\* The second entry, titled in upper case, is returned though the third
\* matches too.
C3_Witness ==
    /\ IsSome(sel_out)
    /\ Len(sel_in) = 3
    /\ ~MatchesKeywordSet(sel_in[1])
    /\ sel_in[2].title = Some(TitleNAV)
    /\ MatchesKeywordSet(sel_in[3])
    /\ Val(sel_out) = Some(sel_in[2])

PageLacksField(page) ==
    page.token = None \/ page.companyid = None \/ page.sector = None

\* C4 (markup drift): when the step 2 iteration of a fund ends, a profile
\* page without the token, the company id or the sector has given an error,
\* and no query went out with an empty token or an empty company id.
C4_MarkupDrift ==
    (pc = "sleep2" /\ IsSome(session)) =>
        /\ PageLacksField(Val(session).page) => status2[i] = "error"
        /\ sent[i].query > 0 =>
            /\ Val(session).data.csrf_token # << >>
            /\ Val(session).data.company # << >>

\* C5 (directory format): a directory answer without the data field ends
\* in an error and yields no fund list.
C5_FormatError ==
    (IsSome(directory) /\ ~Raised(Val(directory)) /\ Val(directory).json.data = None) =>
        pc = "aborted" /\ funds_json = None

Qualifies(img) ==
    /\ IsSome(img)
    /\ Contains(Val(img), Marker)
    /\ \E ext \in {<<"j", "p", "g">>, <<"j", "p", "e", "g">>, <<"p", "n", "g">>} :
        EndsWith(Val(img), <<".">> \o ext)

\* C6 (image location): the value returned is the src of the first img whose
\* src contains the marker and ends with an accepted extension, and none
\* exactly when there is no such img.
C6_ImageLocation ==
    IsSome(loc_out) =>
        LET hits == {k \in 1..Len(loc_in) : Qualifies(loc_in[k])}
        IN  /\ hits = {} <=> Val(loc_out) = None
            /\ hits # {} => Val(loc_out) = Some(Val(loc_in[Min(hits)]))

\* The second of three imgs is returned: the first lacks the marker, the
\* third qualifies too.
C6_Witness ==
    /\ IsSome(loc_out)
    /\ loc_in = <<Some(SrcLogo), Some(SrcB), Some(SrcA)>>
    /\ Val(loc_out) = Some(SrcB)

\* C7 (idempotence): after a download that repeats the one before it, with
\* the host serving the same bytes, the files are what they were after the
\* first of the two, and the artifact holds those bytes.
C7_Idempotent ==
    dl_repeat =>
        /\ images = images_before
        /\ FileName(Val(dl_last).url, Val(dl_last).symbol) \in DOMAIN images
        /\ images[FileName(Val(dl_last).url, Val(dl_last).symbol)]
              = Val(dl_last).reply.content

\* A repeated download into a directory that holds another artifact too.
C7_Witness ==
    /\ dl_repeat
    /\ dl_calls = 3
    /\ Cardinality(DOMAIN images) = 2

ArtifactsOf(symbol) ==
    {p \in DOMAIN images : \E a \in dl_written : a.path = p /\ a.symbol = symbol}

\* C8 as stated: at most one artifact per symbol, whatever the extensions.
C8_OnePerSymbol == \A s \in Symbols : Cardinality(ArtifactsOf(s)) <= 1

\* C8 (amended): at most one artifact per symbol and suffix of the source
\* URL (.jpg when it has none); it holds the bytes of the latest download
\* for that symbol and suffix.
C8_OnePerSymbolAndSuffix ==
    \A a \in dl_written :
        LET same == {b \in dl_written :
                        b.symbol = a.symbol /\ ExtOf(b.url) = ExtOf(a.url)}
        IN  /\ Cardinality({b.path : b \in same}) = 1
            /\ a.path \in DOMAIN images
            /\ images[a.path] = dl_latest[<<a.symbol, ExtOf(a.url)>>]

\* One symbol downloaded from two URLs of the same suffix and from a third
\* of another suffix.
C8_Witness ==
    \E a, b, c \in dl_written :
        /\ a.symbol = b.symbol /\ b.symbol = c.symbol
        /\ a.url # b.url
        /\ ExtOf(a.url) = ExtOf(b.url)
        /\ ExtOf(c.url) # ExtOf(a.url)
        /\ Cardinality(ArtifactsOf(a.symbol)) = 2

DownloadFailedFor(k) == sent[k].image = 1 /\ status3[k] = "error"

\* C9 (download failure): when the image request of a fund failed, the files
\* are what they were before the call and the fund is not in downloaded;
\* the loop goes on, so that after it every item of nav_images has an
\* outcome.
C9_DownloadFailure ==
    /\ (pc = "sleep3" /\ DownloadFailedFor(nav_images[j].idx)) =>
            images = images_before
    /\ \A k \in 1..Len(funds) :
        DownloadFailedFor(k) => \A n \in 1..Len(downloaded) : downloaded[n].idx # k
    /\ AfterLoops =>
        \A n \in 1..Len(nav_images) : status3[nav_images[n].idx] # "pending"

\* A finished run in which a download failed with files already present and
\* the next item was saved.
C9_Witness ==
    /\ pc = "done"
    /\ \E n \in 2..(Len(nav_images) - 1) :
        /\ status3[nav_images[n - 1].idx] = "saved"
        /\ DownloadFailedFor(nav_images[n].idx)
        /\ status3[nav_images[n + 1].idx] = "saved"

\* C10 (pacing): no two per-fund requests without a sleep between them.
C10_Pacing == since_sleep <= 1


\* C11 (per-fund progress): when the run is over and OCR did not fail, every
\* fund whose image was downloaded has its OCR snapshot.
C11_PerFundProgress ==
    (pc = "done" /\ status4 # "OCR error") =>
        \A n \in 1..Len(downloaded) : downloaded[n].symbol \in DOMAIN ocr_json


\* The final outcome printed for fund k: one of step 2 for a fund without
\* announcement or with an error there, else one of step 3.
HasFinalStatus(k) ==
    \/ status2[k] \in {"no NAV announcement found", "error"} /\ status3[k] = "pending"
    \/ status2[k] = "found" /\ status3[k] \in {"no image found", "error", "saved"}

\* C12 (status reporting): a run that got its directory ends, and at its end
\* exactly one final outcome was printed for every fund of the directory.
C12_StatusReporting ==
    /\ [](pc = "done" =>
            \A k \in 1..Len(funds) : reported[k] = 1 /\ HasFinalStatus(k))
    /\ ((pc # "start" /\ pc # "aborted") ~> pc = "done")

\* A finished run of three funds: one without announcement, one saved, one
\* whose download failed.
C12_Witness ==
    /\ pc = "done"
    /\ Len(funds) = 3
    /\ \E a, b, c \in 1..3 :
        /\ status2[a] = "no NAV announcement found"
        /\ status3[b] = "saved"
        /\ sent[c].image = 1 /\ status3[c] = "error"


SomeFundFailed == \E k \in 1..Len(funds) : status2[k] = "error" \/ status3[k] = "error"

SomeFundSaved == \E k \in 1..Len(funds) : status3[k] = "saved"

AllFundsSaved == Len(funds) > 0 /\ \A k \in 1..Len(funds) : status3[k] = "saved"

\* C13 (partial failure): a finished run in which a fund ended in an error
\* and another was saved keeps the saved fund's image and metadata, and its
\* exit status is not the one of a run in which every fund was saved, which
\* is the status of a normal return.
C13_PartialFailure ==
    (pc = "done" /\ SomeFundFailed /\ SomeFundSaved) =>
        /\ \A k \in 1..Len(funds) :
              status3[k] = "saved" =>
                  \E n \in 1..Len(Val(images_json)) :
                      /\ Val(images_json)[n].idx = k
                      /\ Val(images_json)[n].image_path \in DOMAIN images
        /\ ExitStatus # Some(ExitAfterReturn)


KeywordsIn(lines) ==
    {keywords[n] : n \in {m \in 1..Len(keywords) :
                            \E l \in 1..Len(lines) : Contains(lines[l], keywords[m])}}

\* C14 (batch candidate record): every OCR snapshot written by a batch run
\* for a result with lines has, besides the text, the line count and the
\* kept results, a field holding the set of domain keywords found in the lines.
C14_KeywordHits ==
    \A s \in DOMAIN ocr_json :
        ocr_json[s].line_count > 0 =>
            \E f \in DOMAIN ocr_json[s] \ {"raw_text", "line_count", "ocr_results"} :
                ocr_json[s][f] = KeywordsIn(Split(ocr_json[s].raw_text))


DirectoryFetchFailed ==
    /\ IsSome(directory)
    /\ Val(directory).kind = "transport_error" \/ ~Val(directory).ok

\* C15 (pre-fund abort): once the directory fetch has failed, by a transport
\* error or by an HTTP error status, the run is aborted, no request of any
\* fund has been issued, no session exists, and neither the funds listing nor
\* the image metadata nor an OCR snapshot nor an image file has been written.
C15_PreFundAbort ==
    DirectoryFetchFailed =>
        /\ pc = "aborted"
        /\ funds = << >> /\ sent = << >> /\ session = None
        /\ funds_json = None /\ images_json = None
        /\ ocr_json = << >> /\ images = << >> /\ ~images_dir

C15_Witness ==
    /\ pc = "aborted"
    /\ Val(directory).kind = "response" /\ ~Val(directory).ok


CliSourceMissing ==
    /\ IsSome(cli_args) /\ IsSome(Val(cli_args).image)
    /\ LET source == Val(Val(cli_args).image)
       IN  /\ Len(source) < 4 \/ <<source[1], source[2], source[3], source[4]>> # Http
           /\ source \notin DOMAIN LocalFiles

CliStepFailed ==
    \/ IsSome(cli_args) /\ Val(cli_args).image = None
    \/ CliSourceMissing
    \/ IsSome(cli_reply) /\ (Val(cli_reply).kind # "response" \/ ~Val(cli_reply).ok)
    \/ cli_img = Some(None)
    \/ IsSome(cli_engine) /\ Val(cli_engine) # "text"

\* C16 (recognition CLI outcome): standard output never holds more than one
\* document and holds none once a step has failed; a run that ended after a
\* failure (no --image, source not found, request failed, no image decoded,
\* engine missing or failing) has a non-zero exit status, nothing on standard
\* output and its error as the last line of standard error; a run that ended
\* without a failure has exit status 0 and exactly one document, the parse of
\* the recognized text, on standard output.
C16_CliOutcome ==
    /\ Len(cli_stdout) <= 1
    /\ CliStepFailed => cli_stdout = << >>
    /\ IsSome(cli_exit) =>
        IF CliStepFailed
        THEN /\ Val(cli_exit) # 0
             /\ cli_stdout = << >>
             /\ cli_stderr # << >>
             /\ cli_stderr[Len(cli_stderr)] \in
                    {"usage", "error", "error: Tesseract not found"}
        ELSE /\ Val(cli_exit) = 0
             /\ Len(cli_stdout) = 1
             /\ IsSome(cli_text)
             /\ DOMAIN cli_stdout[1] = {"found_keywords", "raw_lines"}

C16_Witness ==
    /\ cli_exit = Some(1)
    /\ cli_engine = Some("missing")
    /\ cli_debug_file
    /\ cli_stdout = << >>


OccursIn(kw, text) ==
    \E p \in 0..(Len(text) - Len(kw)) : \A q \in 1..Len(kw) : text[p + q] = kw[q]

ListIndex(kw) == CHOOSE m \in 1..Len(keywords) : keywords[m] = kw

\* C17 (keyword hits): after parse_data, a keyword of the fixed list is in
\* found_keywords exactly if it occurs in the text; every entry is a keyword
\* of the list, no keyword is listed twice, the entries follow the order of
\* the list, and the result is empty when no returned line holds a keyword.
C17_KeywordHits ==
    IsSome(parse_out) =>
        LET found == Val(parse_out).found_keywords
            lines == Val(parse_out).raw_lines
        IN  /\ \A m \in 1..Len(keywords) :
                  (\E n \in 1..Len(found) : found[n] = keywords[m])
                      <=> OccursIn(keywords[m], parse_in)
            /\ \A n \in 1..Len(found) : \E m \in 1..Len(keywords) : found[n] = keywords[m]
            /\ \A a, b \in 1..Len(found) :
                  a < b => ListIndex(found[a]) < ListIndex(found[b])
            /\ (\A l \in 1..Len(lines), m \in 1..Len(keywords) :
                      ~OccursIn(keywords[m], lines[l]))
                  => found = << >>

\* The text holds NAV before the other keyword, and NAV inside a longer line.
C17_Witness ==
    /\ IsSome(parse_out)
    /\ Val(parse_out).found_keywords = <<KwMulya, KwNAV>>
    /\ parse_in = KwNAV \o <<"x">> \o <<"\n">> \o KwMulya

LineBreaks(text) ==
    {0, Len(text) + 1} \cup {p \in 1..Len(text) : text[p] = "\n"}

\* The lines of the text as spans: from one line feed (or the start) to the
\* next (or the end), both exclusive.
LineSpans(text) ==
    {sp \in LineBreaks(text) \X LineBreaks(text) :
        /\ sp[1] < sp[2]
        /\ \A p \in LineBreaks(text) : ~(sp[1] < p /\ p < sp[2])}

Blank == {" ", "\t", "\r", "\f"}

Inked(text, sp) == {p \in (sp[1] + 1)..(sp[2] - 1) : text[p] \notin Blank}

KeptSpans(text) == {sp \in LineSpans(text) : Inked(text, sp) # {}}

Trimmed(text, sp) ==
    LET first == CHOOSE p \in Inked(text, sp) : \A q \in Inked(text, sp) : p <= q
        last == CHOOSE p \in Inked(text, sp) : \A q \in Inked(text, sp) : q <= p
    IN  [n \in 1..(last - first + 1) |-> text[first + n - 1]]

RankOf(text, sp) == Cardinality({o \in KeptSpans(text) : o[1] <= sp[1]})

\* C18 (line preservation): after parse_data, raw_lines has one entry for
\* each line of the text that holds a character other than whitespace, in
\* the order of the lines, and the entry is that line from its first to its
\* last such character; this is so with and without keywords found.
C18_LinePreservation ==
    IsSome(parse_out) =>
        LET lines == Val(parse_out).raw_lines
        IN  /\ Len(lines) = Cardinality(KeptSpans(parse_in))
            /\ \A sp \in KeptSpans(parse_in) :
                  lines[RankOf(parse_in, sp)] = Trimmed(parse_in, sp)

\* A blank line between two kept lines, the same line twice, no keyword.
C18_Witness ==
    /\ IsSome(parse_out)
    /\ parse_in = <<"x", "\n", " ", "\n", "x">>
    /\ Val(parse_out).raw_lines = <<<<"x">>, <<"x">>>>
    /\ Val(parse_out).found_keywords = << >>


OnPage(field) == IF IsSome(field) THEN Val(field) ELSE << >>

\* C20 (session scoping): the sessions created for different funds are
\* different objects; the session in use is the one created in the current
\* fund's call; the announcement query goes through that session (whose
\* cookies are those of this fund's profile response) and sends the token and
\* the company identifier found on the page that session fetched, the empty
\* text for one the page lacks, and never the token or identifier of another
\* fund's page.
C20_SessionScoping ==
    /\ \A a, b \in 1..Len(session_of) :
          (a # b /\ session_of[a] # 0) => session_of[a] # session_of[b]
    /\ IsSome(session) => Val(session).sid = session_of[i] /\ session_of[i] # 0
    /\ \A k \in 1..Len(session_of) : k > i => session_of[k] = 0
    /\ IsSome(query_sent) =>
          /\ IsSome(session)
          /\ Val(query_sent).sid = session_of[i]
          /\ Val(query_sent).X_CSRF_Token = OnPage(Val(session).page.token)
          /\ Val(query_sent).company = OnPage(Val(session).page.companyid)
          /\ \A k \in 1..Len(funds) :
                k # i => /\ Val(query_sent).X_CSRF_Token # <<"tok", k>>
                         /\ Val(query_sent).company # <<"cid", k>>
                         /\ Val(query_sent).sid # session_of[k]

\* The query of the second fund has gone out with that fund's own token,
\* after the first fund's session had fetched a page with a token too.
C20_Witness ==
    /\ pc = "sleep2" /\ i = 2
    /\ IsSome(query_sent)
    /\ Val(query_sent).X_CSRF_Token = <<"tok", 2>>
    /\ session_of[1] # 0
    /\ status2[1] = "found"


\* C21 (no internal retries): the directory has been requested once as soon
\* as the run has left its start and never again; no fund has had more than
\* one profile request, one announcement query, one detail-page request or
\* one image request, and a fund whose request failed has had exactly that
\* one request of the kind.
C21_NoRetries ==
    /\ directory_requests = (IF pc = "start" THEN 0 ELSE 1)
    /\ \A k \in 1..Len(sent) :
          /\ sent[k].profile <= 1 /\ sent[k].query <= 1
          /\ sent[k].detail <= 1 /\ sent[k].image <= 1
          /\ sent[k].query <= sent[k].profile
          /\ sent[k].image <= sent[k].detail

\* A finished run in which one fund's profile request failed and another
\* fund's image request failed.
C21_Witness ==
    /\ pc = "done"
    /\ \E a, b \in 1..Len(funds) :
        /\ status2[a] = "error" /\ sent[a].profile = 1 /\ sent[a].query = 0
        /\ status3[b] = "error" /\ sent[b].image = 1


InDownloaded(k) == \E n \in 1..Len(downloaded) : downloaded[n].idx = k

\* C23 (stage ordering): a fund has had a detail-page request only if its
\* announcement list holds a matching title; the image request is made with
\* a URL that was located on the detail page, and only for a fund that had
\* its detail-page request; every entry of downloaded is a fund whose image
\* request succeeded and whose file exists; OCR output exists only for a
\* downloaded fund; and a fund that ended step 2 without an announcement or
\* with an error, or step 3 without an image or with an error, has gone no
\* further.
C23_StageOrdering ==
    /\ \A k \in 1..Len(funds) :
          /\ sent[k].detail > 0 =>
                /\ status2[k] = "found"
                /\ IsSome(announcements[k])
                /\ ~NoTitleMatches(Val(announcements[k]))
          /\ sent[k].image > 0 => sent[k].detail > 0 /\ status3[k] # "no image found"
          /\ status2[k] \in {"no NAV announcement found", "error"} =>
                /\ sent[k].detail = 0 /\ sent[k].image = 0
                /\ status3[k] = "pending" /\ ~InDownloaded(k)
          /\ status3[k] = "no image found" => sent[k].image = 0 /\ ~InDownloaded(k)
          /\ status3[k] = "error" => ~InDownloaded(k)
    /\ pc = "download" => Qualifies(img_url)
    /\ \A n \in 1..Len(downloaded) :
          /\ status3[downloaded[n].idx] = "saved"
          /\ sent[downloaded[n].idx].image = 1
          /\ downloaded[n].image_path \in DOMAIN images
          /\ Qualifies(Some(downloaded[n].image_url))
    /\ status4 # "pending" => Len(downloaded) > 0
    /\ \A sym \in DOMAIN ocr_json :
          \E n \in 1..Len(downloaded) : downloaded[n].symbol = sym

\* A finished run with OCR output in which one fund stopped at each stage.
C23_Witness ==
    /\ pc = "done" /\ status4 = "ok"
    /\ \E a, b, c \in 1..Len(funds) :
        /\ status2[a] = "no NAV announcement found"
        /\ status3[b] = "no image found"
        /\ status3[c] = "saved"


DirectoryRows ==
    IF IsSome(Val(directory).json.data) THEN Val(Val(directory).json.data) ELSE << >>

\* The field is markup ending in an anchor around the token tok.
AnchorAround(field, tok) ==
    /\ tok # << >>
    /\ \A n \in 1..Len(tok) : tok[n] \in UpperAlnum
    /\ Len(field) >= Len(tok) + 5
    /\ SubSeq(field, Len(field) - Len(tok) - 4, Len(field)) = <<">">> \o tok \o AnchorClose

RowsKept ==
    /\ Len(funds) = Len(DirectoryRows)
    /\ \A k \in 1..Len(funds) :
          LET field == IF IsSome(DirectoryRows[k].symbol)
                       THEN Val(DirectoryRows[k].symbol) ELSE << >>
          IN  IF \E a \in 1..Len(field), b \in 1..Len(field) :
                     AnchorAround(field, SubSeq(field, a, b))
              THEN AnchorAround(field, funds[k].symbol)
              ELSE funds[k].symbol = field

\* C24 (directory listing): after a directory response, funds has one entry
\* per row of the data array, in row order, each with the anchor text of the
\* row's symbol field when that is an anchor around an upper-case
\* alphanumeric token and with the raw field otherwise, and no two entries
\* of funds have the same symbol.
C24_DirectoryListing ==
    (IsSome(directory) /\ Val(directory).kind = "response" /\ Val(directory).ok) =>
        /\ RowsKept
        /\ \A a, b \in 1..Len(funds) : a # b => funds[a].symbol # funds[b].symbol


Acquired(k) == status2[k] = "found" /\ sent[k].image = 1 /\ status3[k] = "saved"

\* C25 (persisted download metadata): funds.json holds the directory's funds
\* from the moment the run is past the directory fetch, so before any
\* request of a fund; images.json is not written before the loops are over;
\* when the run is over images.json exists and lists the funds that were
\* resolved, located and downloaded, each once, in directory order, with
\* the fund's symbol, and it is the empty list when no fund got that far.
C25_PersistedMetadata ==
    /\ pc \notin {"start", "aborted"} => funds_json = Some(funds)
    /\ \A k \in 1..Len(sent) :
          (sent[k].profile + sent[k].query + sent[k].detail + sent[k].image > 0)
              => IsSome(funds_json)
    /\ pc \in {"profile", "query", "sleep2", "locate", "download", "sleep3", "save"}
          => images_json = None
    /\ pc = "done" =>
          /\ IsSome(images_json)
          /\ \A k \in 1..Len(funds) :
                Acquired(k) <=> \E n \in 1..Len(Val(images_json)) :
                                    Val(images_json)[n].idx = k
          /\ \A n, m \in 1..Len(Val(images_json)) :
                n < m => Val(images_json)[n].idx < Val(images_json)[m].idx
          /\ \A n \in 1..Len(Val(images_json)) :
                Val(images_json)[n].symbol = funds[Val(images_json)[n].idx].symbol
          /\ (\A k \in 1..Len(funds) : ~Acquired(k)) => images_json = Some(<< >>)

\* A finished run of three funds: the first and the third are listed, the
\* second ended in an error.
C25_Witness ==
    /\ pc = "done"
    /\ Len(funds) = 3
    /\ status2[2] = "error"
    /\ Len(Val(images_json)) = 2
    /\ Val(images_json)[1].idx = 1 /\ Val(images_json)[2].idx = 3


CliDebugFlag == IsSome(cli_args) /\ Val(cli_args).debug

\* C26 (debug artifact): debug_processed.png exists only with the debug
\* flag and only after the image was loaded and normalized; once the run is
\* past the debug step, so before the engine is asked and whatever the
\* engine then does, the file exists exactly if the flag is set; a run that
\* failed before or in normalization leaves no file.
C26_DebugArtifact ==
    /\ cli_debug_file => CliDebugFlag /\ IsSome(cli_processed)
    /\ cli_pc = "extract_text" => (cli_debug_file <=> CliDebugFlag)
    /\ IsSome(cli_engine) => (cli_debug_file <=> CliDebugFlag)
    /\ (IsSome(cli_exit) /\ cli_processed = None) => ~cli_debug_file
    /\ cli_pc = "debug" => ~cli_debug_file /\ cli_engine = None

\* The engine turned out to be missing after the file was written.
C26_Witness ==
    /\ cli_pc = "except"
    /\ cli_exc = Some("TesseractNotFoundError")
    /\ CliDebugFlag
    /\ cli_debug_file


RecordLines(doc) == [k \in 1..Len(doc.ocr_results) |-> doc.ocr_results[k].text]

\* C27 (record completeness): in every OCR snapshot the sequence of lines
\* has as many entries as line_count says and, in order, the texts that the
\* record's joined text is made of.
C27_RecordComplete ==
    \A s \in DOMAIN ocr_json :
        /\ Len(ocr_json[s].ocr_results) = ocr_json[s].line_count
        /\ ocr_json[s].line_count > 0 =>
              Split(ocr_json[s].raw_text) = RecordLines(ocr_json[s])


ThreeExtensions ==
    {<<".", "j", "p", "g">>, <<".", "j", "p", "e", "g">>, <<".", "p", "n", "g">>}

DifferentSymbolsDifferentPaths ==
    \A n, m \in 1..Len(downloaded) :
        downloaded[n].symbol # downloaded[m].symbol
            => downloaded[n].image_path # downloaded[m].image_path

\* C28 as stated: every artifact of the run is named by the fund's symbol
\* followed by the accepted extension its URL ends in, so that the default
\* extension is never used, and funds with different symbols have
\* different artifact paths.
C28_ArtifactKeys ==
    /\ \A n \in 1..Len(downloaded) :
          \E ext \in ThreeExtensions :
              /\ EndsWith(downloaded[n].image_url, ext)
              /\ downloaded[n].image_path = downloaded[n].symbol \o ext
    /\ DifferentSymbolsDifferentPaths

\* The URL's last component is the extension alone.
BareExtension(url) ==
    \E ext \in ThreeExtensions :
        /\ Len(url) > Len(ext)
        /\ SubSeq(url, Len(url) - Len(ext), Len(url)) = <<"/">> \o ext

\* C28 (amended): every artifact of the run exists under the fund's symbol
\* followed by one of .jpg, .jpeg, .png: the extension its URL ends in, or
\* the default .jpg when the last component of the URL is that extension
\* alone; funds with different symbols have different artifact paths.
C28_ArtifactKeysOrDefault ==
    /\ \A n \in 1..Len(downloaded) :
          /\ downloaded[n].image_path \in DOMAIN images
          /\ \E ext \in ThreeExtensions :
                /\ EndsWith(downloaded[n].image_url, ext)
                /\ downloaded[n].image_path = downloaded[n].symbol \o
                      (IF BareExtension(downloaded[n].image_url)
                       THEN <<".", "j", "p", "g">> ELSE ext)
    /\ DifferentSymbolsDifferentPaths

\* Two funds of different symbols saved, one of them from a URL whose last
\* component is ".png".
C28_Witness ==
    /\ pc = "done"
    /\ \E n, m \in 1..Len(downloaded) :
        /\ downloaded[n].symbol # downloaded[m].symbol
        /\ downloaded[n].image_url = SrcDot
        /\ downloaded[m].image_url = SrcB


Distance(a, b) == IF a >= b THEN a - b ELSE b - a

\* C29 (scale_holdings changes only values): the dict returned has the
\* sectors of the input, each with as many items as in the input, item by
\* item with the same fields, name and units, and with a value that is an
\* integer nearest to the input value times the sector's multiplier (1.05
\* for a sector without one); the input dict is what it was before the call.
C29_OnlyValues ==
    IsSome(sc_out) =>
        /\ DOMAIN Val(sc_out) = DOMAIN sc_before
        /\ \A s \in DOMAIN sc_before :
              /\ Len(Val(sc_out)[s]) = Len(sc_before[s])
              /\ \A n \in 1..Len(sc_before[s]) :
                    LET old == sc_before[s][n]
                        new == Val(sc_out)[s][n]
                        m == IF s \in DOMAIN sc_multipliers
                             THEN sc_multipliers[s] ELSE 1050
                    IN  /\ DOMAIN new = DOMAIN old
                        /\ new.name = old.name /\ new.units = old.units
                        /\ 2 * Distance(1000 * new.value, old.value * m) <= 1000
        /\ sc_holdings = sc_before

\* Two sectors, one without a multiplier, the same name twice in a sector,
\* and a value changed by the call.
C29_Witness ==
    /\ IsSome(sc_out)
    /\ sc_multipliers = SECTOR_MULTIPLIERS
    /\ DOMAIN sc_before = {"fixed_deposits", "mutual_funds"}
    /\ Len(sc_before["mutual_funds"]) = 2
    /\ sc_before["mutual_funds"][1].name = sc_before["mutual_funds"][2].name
    /\ sc_before["mutual_funds"][1].value = 100
    /\ Val(sc_out)["mutual_funds"][1].value = 105


NoNameTwice(items) ==
    \A p1, p2 \in 1..Len(items) : items[p1].name = items[p2].name => p1 = p2

\* C30 (no duplicate holdings after correction): after main of the
\* correction script has run, in every fund it corrected no sector lists the
\* same company name twice, and applying the company renames a second time
\* changes nothing.
C30_NoDuplicates ==
    fx_pc = "done" =>
        \A n \in 1..Len(fx_data) :
            fx_data[n].symbol \in fx_fixed =>
                /\ \A sector \in DOMAIN fx_data[n].holdings :
                      NoNameTwice(fx_data[n].holdings[sector])
                /\ apply_renames(fx_data[n].holdings) = fx_data[n].holdings

====
